---- MODULE Spec2Model ----
(***************************************************************************)
(* Model of the Jira customer-support chatbot: the conversation store and  *)
(* query router of chatbot_core.py, the chat endpoint of main.py and the   *)
(* dispatcher and parameter extractors of mcp_client.py.                   *)
(*                                                                         *)
(* Text is a sequence of atoms.  An atom is a one-character string, or a   *)
(* whole string literal of the source (a fixed message or an f-string      *)
(* fragment) kept as one atom.  User queries are made of one-character     *)
(* atoms only, so lower(), upper(), split(), "k in s", isdigit() and int() *)
(* are computed on them character by character as Python does.             *)
(***************************************************************************)
EXTENDS Integers, Sequences, FiniteSets, TLC

VARIABLES conversation_history, appended, pipeline, request, dispatch_result,
          transport_calls, generator_calls, search_calls, chat_response, steps,
          session_log, writers, ollama_history

vars == <<conversation_history, appended, pipeline, request, dispatch_result,
          transport_calls, generator_calls, search_calls, chat_response, steps,
          session_log, writers, ollama_history>>

(***************************************************************************)
(* Python str operations                                                   *)
(***************************************************************************)
LowerOf ==
    "A" :> "a" @@ "B" :> "b" @@ "C" :> "c" @@ "D" :> "d" @@ "E" :> "e"
    @@ "F" :> "f" @@ "G" :> "g" @@ "H" :> "h" @@ "I" :> "i" @@ "J" :> "j"
    @@ "K" :> "k" @@ "L" :> "l" @@ "M" :> "m" @@ "N" :> "n" @@ "O" :> "o"
    @@ "P" :> "p" @@ "Q" :> "q" @@ "R" :> "r" @@ "S" :> "s" @@ "T" :> "t"
    @@ "U" :> "u" @@ "V" :> "v" @@ "W" :> "w" @@ "X" :> "x" @@ "Y" :> "y"
    @@ "Z" :> "z"

UpperOf ==
    "a" :> "A" @@ "b" :> "B" @@ "c" :> "C" @@ "d" :> "D" @@ "e" :> "E"
    @@ "f" :> "F" @@ "g" :> "G" @@ "h" :> "H" @@ "i" :> "I" @@ "j" :> "J"
    @@ "k" :> "K" @@ "l" :> "L" @@ "m" :> "M" @@ "n" :> "N" @@ "o" :> "O"
    @@ "p" :> "P" @@ "q" :> "Q" @@ "r" :> "R" @@ "s" :> "S" @@ "t" :> "T"
    @@ "u" :> "U" @@ "v" :> "V" @@ "w" :> "W" @@ "x" :> "X" @@ "y" :> "Y"
    @@ "z" :> "Z"

DigitVal ==
    "0" :> 0 @@ "1" :> 1 @@ "2" :> 2 @@ "3" :> 3 @@ "4" :> 4 @@ "5" :> 5
    @@ "6" :> 6 @@ "7" :> 7 @@ "8" :> 8 @@ "9" :> 9

Whitespace == {" ", "\n", "\t"}

Min(S) == CHOOSE x \in S : \A y \in S : x <= y

Max(S) == CHOOSE x \in S : \A y \in S : x >= y

\* the member of a one-element set; Only({ e : x \in {v} }) is e for x = v,
\* with v computed once
Only(S) == CHOOSE x \in S : TRUE

\* the first index of a set of list positions (the position a loop breaks at),
\* 0 when there is none
First(I) == IF I = {} THEN 0 ELSE Min(I)

\* str.lower()
Lower(s) == [i \in 1..Len(s) |-> IF s[i] \in DOMAIN LowerOf THEN LowerOf[s[i]] ELSE s[i]]

\* str.upper()
Upper(s) == [i \in 1..Len(s) |-> IF s[i] \in DOMAIN UpperOf THEN UpperOf[s[i]] ELSE s[i]]

\* the positions at which k occurs in s
Occurrences(k, s) ==
    {i \in 1..(Len(s) - Len(k) + 1) : s[i] = k[1] /\ SubSeq(s, i, i + Len(k) - 1) = k}

\* k in s
Contains(s, k) ==
    \/ k = <<>>
    \/ \E i \in 1..(Len(s) - Len(k) + 1) : s[i] = k[1] /\ SubSeq(s, i, i + Len(k) - 1) = k

\* s.startswith(p)
StartsWith(s, p) == Len(p) <= Len(s) /\ SubSeq(s, 1, Len(p)) = p

\* c.isalpha()
IsAlpha(c) == c \in DOMAIN LowerOf \/ c \in DOMAIN UpperOf

\* s.isdigit()
IsDigit(s) == Len(s) > 0 /\ \A i \in 1..Len(s) : s[i] \in DOMAIN DigitVal

RECURSIVE DigitsValue(_)
DigitsValue(s) ==
    IF s = <<>> THEN 0
    ELSE 10 * DigitsValue(SubSeq(s, 1, Len(s) - 1)) + DigitVal[s[Len(s)]]

\* int(s) succeeds: an optional sign followed by decimal digits
IntParses(s) ==
    IF Len(s) > 0 /\ s[1] \in {"+", "-"} THEN IsDigit(Tail(s)) ELSE IsDigit(s)

\* int(s), where IntParses(s)
IntOf(s) ==
    IF s[1] = "-" THEN 0 - DigitsValue(Tail(s))
    ELSE IF s[1] = "+" THEN DigitsValue(Tail(s))
    ELSE DigitsValue(s)

DigitChar(d) == CHOOSE c \in DOMAIN DigitVal : DigitVal[c] = d

RECURSIVE NatStr(_)
NatStr(n) == IF n < 10 THEN <<DigitChar(n)>> ELSE NatStr(n \div 10) \o <<DigitChar(n % 10)>>

\* str(n) for an int n
IntStr(n) == IF n < 0 THEN <<"-">> \o NatStr(0 - n) ELSE NatStr(n)

\* s.strip()
RECURSIVE LStrip(_)
LStrip(s) == IF s # <<>> /\ s[1] \in Whitespace THEN LStrip(Tail(s)) ELSE s

RECURSIVE RStrip(_)
RStrip(s) ==
    IF s # <<>> /\ s[Len(s)] \in Whitespace THEN RStrip(SubSeq(s, 1, Len(s) - 1)) ELSE s

Strip(s) == RStrip(LStrip(s))

\* s.split(): the maximal runs of non-whitespace characters
RECURSIVE Split(_)
Split(s) ==
    Only({ IF t = <<>> THEN <<>>
           ELSE Only({ <<SubSeq(t, 1, n)>> \o Split(SubSeq(t, n + 1, Len(t))) :
                       n \in {Min({i \in 1..Len(t) : t[i] \in Whitespace}
                                  \cup {Len(t) + 1}) - 1} }) :
           t \in {LStrip(s)} })

\* s.split(sep) for a non-empty separator
RECURSIVE SplitOn(_, _)
SplitOn(s, sep) ==
    Only({ IF i = 0 THEN <<s>>
           ELSE <<SubSeq(s, 1, i - 1)>> \o SplitOn(SubSeq(s, i + Len(sep), Len(s)), sep) :
           i \in {First(Occurrences(sep, s))} })

\* sep.join(parts)
RECURSIVE Join(_, _)
Join(sep, parts) ==
    IF parts = <<>> THEN <<>>
    ELSE IF Len(parts) = 1 THEN parts[1]
    ELSE parts[1] \o sep \o Join(sep, Tail(parts))

\* " ".join(parts)
JoinSp(parts) == Join(<<" ">>, parts)

\* Optional values: None, or a value
None == [some |-> FALSE]

Some(v) == [some |-> TRUE, val |-> v]

\* Python truth of an optional str or list
Truthy(o) == o.some /\ o.val # <<>>

\* Python truth of an optional int
TruthyInt(o) == o.some /\ o.val # 0

\* the empty dict {}
EmptyDict == [k \in {} |-> 0]

\* d.get(k, default)
DictGet(d, k, default) == IF k \in DOMAIN d THEN d[k] ELSE default

(***************************************************************************)
(* Words and keywords, as character sequences                              *)
(***************************************************************************)
\* The words of the queries, each as its sequence of characters
Word ==
    "Create" :> <<"C", "r", "e", "a", "t", "e">> @@
    "epic" :> <<"e", "p", "i", "c">> @@
    "in" :> <<"i", "n">> @@
    "DEMO" :> <<"D", "E", "M", "O">> @@
    "with" :> <<"w", "i", "t", "h">> @@
    "title" :> <<"t", "i", "t", "l", "e">> @@
    "Test" :> <<"T", "e", "s", "t">> @@
    "Epic" :> <<"E", "p", "i", "c">> @@
    "create" :> <<"c", "r", "e", "a", "t", "e">> @@
    "project" :> <<"p", "r", "o", "j", "e", "c", "t">> @@
    "demo" :> <<"d", "e", "m", "o">> @@
    "My" :> <<"M", "y">> @@
    "How" :> <<"H", "o", "w">> @@
    "do" :> <<"d", "o">> @@
    "I" :> <<"I">> @@
    "an" :> <<"a", "n">> @@
    "epic?" :> <<"e", "p", "i", "c", "?">> @@
    "PROJECT-123" :> <<"P", "R", "O", "J", "E", "C", "T", "-", "1", "2", "3">> @@
    "Show" :> <<"S", "h", "o", "w">> @@
    "epics" :> <<"e", "p", "i", "c", "s">> @@
    "list" :> <<"l", "i", "s", "t">> @@
    "all" :> <<"a", "l", "l">> @@
    "EPIC-123" :> <<"E", "P", "I", "C", "-", "1", "2", "3">> @@
    "status" :> <<"s", "t", "a", "t", "u", "s">> @@
    "Update" :> <<"U", "p", "d", "a", "t", "e">> @@
    "sprint" :> <<"s", "p", "r", "i", "n", "t">> @@
    "board" :> <<"b", "o", "a", "r", "d">> @@
    "123" :> <<"1", "2", "3">> @@
    "named" :> <<"n", "a", "m", "e", "d">> @@
    "Sprint" :> <<"S", "p", "r", "i", "n", "t">> @@
    "1" :> <<"1">> @@
    "5" :> <<"5">> @@
    "Alpha" :> <<"A", "l", "p", "h", "a">> @@
    "Beta" :> <<"B", "e", "t", "a">> @@
    "0" :> <<"0">> @@
    "me" :> <<"m", "e">> @@
    "sprints" :> <<"s", "p", "r", "i", "n", "t", "s">> @@
    "42" :> <<"4", "2">> @@
    "boards" :> <<"b", "o", "a", "r", "d", "s">> @@
    "7" :> <<"7">> @@
    "info" :> <<"i", "n", "f", "o">> @@
    "Hello!" :> <<"H", "e", "l", "l", "o", "!">> @@
    "What" :> <<"W", "h", "a", "t">> @@
    "is" :> <<"i", "s">> @@
    "new?" :> <<"n", "e", "w", "?">> @@
    "add" :> <<"a", "d", "d">> @@
    "item" :> <<"i", "t", "e", "m">> @@
    "new" :> <<"n", "e", "w">> @@
    "for" :> <<"f", "o", "r">>

\* The string literals the code searches a query for, each as its sequence of
\* characters
Keyword ==
    "epic" :> <<"e", "p", "i", "c">> @@
    "epics" :> <<"e", "p", "i", "c", "s">> @@
    "epic-" :> <<"e", "p", "i", "c", "-">> @@
    "large story" :> <<"l", "a", "r", "g", "e", " ", "s", "t", "o", "r", "y">> @@
    "feature" :> <<"f", "e", "a", "t", "u", "r", "e">> @@
    "sprint" :> <<"s", "p", "r", "i", "n", "t">> @@
    "sprints" :> <<"s", "p", "r", "i", "n", "t", "s">> @@
    "iteration" :> <<"i", "t", "e", "r", "a", "t", "i", "o", "n">> @@
    "sprint planning" :> <<"s", "p", "r", "i", "n", "t", " ", "p", "l", "a", "n", "n", "i", "n", "g">> @@
    "agile" :> <<"a", "g", "i", "l", "e">> @@
    "issue" :> <<"i", "s", "s", "u", "e">> @@
    "issues" :> <<"i", "s", "s", "u", "e", "s">> @@
    "task" :> <<"t", "a", "s", "k">> @@
    "story" :> <<"s", "t", "o", "r", "y">> @@
    "bug" :> <<"b", "u", "g">> @@
    "ticket" :> <<"t", "i", "c", "k", "e", "t">> @@
    "create" :> <<"c", "r", "e", "a", "t", "e">> @@
    "add" :> <<"a", "d", "d">> @@
    "new" :> <<"n", "e", "w">> @@
    "make" :> <<"m", "a", "k", "e">> @@
    "generate" :> <<"g", "e", "n", "e", "r", "a", "t", "e">> @@
    "list" :> <<"l", "i", "s", "t">> @@
    "show" :> <<"s", "h", "o", "w">> @@
    "display" :> <<"d", "i", "s", "p", "l", "a", "y">> @@
    "get all" :> <<"g", "e", "t", " ", "a", "l", "l">> @@
    "find all" :> <<"f", "i", "n", "d", " ", "a", "l", "l">> @@
    "get" :> <<"g", "e", "t">> @@
    "find" :> <<"f", "i", "n", "d">> @@
    "search" :> <<"s", "e", "a", "r", "c", "h">> @@
    "retrieve" :> <<"r", "e", "t", "r", "i", "e", "v", "e">> @@
    "fetch" :> <<"f", "e", "t", "c", "h">> @@
    "update" :> <<"u", "p", "d", "a", "t", "e">> @@
    "modify" :> <<"m", "o", "d", "i", "f", "y">> @@
    "change" :> <<"c", "h", "a", "n", "g", "e">> @@
    "edit" :> <<"e", "d", "i", "t">> @@
    "alter" :> <<"a", "l", "t", "e", "r">> @@
    "delete" :> <<"d", "e", "l", "e", "t", "e">> @@
    "remove" :> <<"r", "e", "m", "o", "v", "e">> @@
    "cancel" :> <<"c", "a", "n", "c", "e", "l">> @@
    "archive" :> <<"a", "r", "c", "h", "i", "v", "e">> @@
    "help" :> <<"h", "e", "l", "p">> @@
    "how" :> <<"h", "o", "w">> @@
    "what" :> <<"w", "h", "a", "t">> @@
    "explain" :> <<"e", "x", "p", "l", "a", "i", "n">> @@
    "guide" :> <<"g", "u", "i", "d", "e">> @@
    "tutorial" :> <<"t", "u", "t", "o", "r", "i", "a", "l">> @@
    "where" :> <<"w", "h", "e", "r", "e">> @@
    "when" :> <<"w", "h", "e", "n">> @@
    "why" :> <<"w", "h", "y">> @@
    "project" :> <<"p", "r", "o", "j", "e", "c", "t">> @@
    "in" :> <<"i", "n">> @@
    "title" :> <<"t", "i", "t", "l", "e">> @@
    "summary" :> <<"s", "u", "m", "m", "a", "r", "y">> @@
    "name" :> <<"n", "a", "m", "e">> @@
    "named" :> <<"n", "a", "m", "e", "d">> @@
    "board" :> <<"b", "o", "a", "r", "d">> @@
    "boards" :> <<"b", "o", "a", "r", "d", "s">> @@
    "create epic" :> <<"c", "r", "e", "a", "t", "e", " ", "e", "p", "i", "c">> @@
    "create sprint" :> <<"c", "r", "e", "a", "t", "e", " ", "s", "p", "r", "i", "n", "t">> @@
    "EPIC-" :> <<"E", "P", "I", "C", "-">> @@
    "PROJ-" :> <<"P", "R", "O", "J", "-">>

(***************************************************************************)
(* Transport: JiraMCPClient                                                *)
(***************************************************************************)
\* What the remote API does with one HTTP request: it answers with a status
\* and possibly a body, or the request raises (network error, timeout).
HttpReplies ==
    { [raises |-> FALSE, status |-> 200, body |-> "full"],
      [raises |-> FALSE, status |-> 200, body |-> "empty"],
      [raises |-> FALSE, status |-> 204, body |-> "none"],
      [raises |-> FALSE, status |-> 404, body |-> "none"],
      [raises |-> TRUE,  status |-> 0,   body |-> "none"] }

\* The replies the dispatcher is checked against on its own: those above, a
\* success status outside the accepted list, and an accepted status with a
\* body that is not JSON
DispatchReplies ==
    HttpReplies \cup
    { [raises |-> FALSE, status |-> 206, body |-> "full"],
      [raises |-> FALSE, status |-> 200, body |-> "garbled"] }

SuccessStatus == {200, 201, 202, 204}

\* response.json() of a reply with content, for the endpoint that was called;
\* the values of the JSON object are kept as the text they are formatted to
JsonBody(op, body) ==
    CASE op = "get_epics" ->
           IF body = "full" THEN [issues |-> <<[key |-> "DEMO-1"]>>, total |-> 1]
           ELSE [issues |-> <<>>, total |-> 0]
      [] op \in {"get_sprints", "get_boards"} ->
           IF body = "full"
           THEN [values |-> <<[id |-> "1", name |-> "Board One", type |-> "scrum",
                              location |-> [projectKey |-> "DEMO"]]>>]
           ELSE [values |-> <<>>]
      [] op \in {"get_epic", "create_epic"} ->
           IF body = "full" THEN [key |-> "DEMO-1", id |-> "10001"] ELSE EmptyDict
      [] OTHER ->
           IF body = "full" THEN [id |-> "7", name |-> "Sprint 1", originBoardId |-> "5"]
           ELSE EmptyDict

\* _make_request that takes every answered request for a success
_make_request_accepts_any_status(op, reply) ==
    IF reply.raises
    THEN [success |-> FALSE, data |-> None,
          error |-> Some(<<"Request failed: ", "timed out">>)]
    ELSE [success |-> TRUE,
          data |-> Some(IF reply.body \in {"full", "empty"}
                        THEN JsonBody(op, reply.body) ELSE EmptyDict),
          error |-> None]

\* JiraMCPClient._make_request; response.json() of a body that is not JSON
\* raises inside the try block
_make_request(op, reply) ==
    IF reply.raises
    THEN [success |-> FALSE, data |-> None,
          error |-> Some(<<"Request failed: ", "timed out">>)]
    ELSE IF reply.status \in SuccessStatus /\ reply.body = "garbled"
    THEN [success |-> FALSE, data |-> None,
          error |-> Some(<<"Request failed: ", "Expecting value: line 1 column 1 (char 0)">>)]
    ELSE IF reply.status \in SuccessStatus
    THEN [success |-> TRUE,
          data |-> Some(IF reply.body # "none" THEN JsonBody(op, reply.body) ELSE EmptyDict),
          error |-> None]
    ELSE [success |-> FALSE, data |-> None,
          error |-> Some(<<"HTTP ">> \o IntStr(reply.status) \o <<": ", "response.text">>)]

\* One call of a client method: get_epics, get_epic, create_epic, ...
Call(op, args) == [op |-> op, args |-> args]

\* What a handler path yields: the returned dict and the client calls made,
\* or the exception that escaped it
Returns(dict, calls) == [raised |-> FALSE, ret |-> dict, calls |-> calls]

Raises(exc, calls) == [raised |-> TRUE, exc |-> exc, calls |-> calls]

(***************************************************************************)
(* Dispatcher: MCPManager                                                  *)
(***************************************************************************)

\* _handle_list_epics that fetches the epics a second time when the first
\* fetch failed
_handle_list_epics_retried(query, reply) ==
    Only({ LET calls == <<Call("get_epics", <<>>)>>
               epics == DictGet(response.data.val, "issues", <<>>)
           IN  IF response.success /\ DOMAIN response.data.val # {}
               THEN Returns([source |-> "mcp", type |-> "epic_list", data |-> epics,
                             message |-> <<"Found ">> \o IntStr(Len(epics)) \o <<" epics">>],
                            calls)
               ELSE Returns([source |-> "mcp_error", error |-> response.error,
                             message |-> <<"Failed to retrieve epics">>], calls \o calls) :
           response \in {_make_request("get_epics", reply)} })

_handle_list_epics(query, reply) ==
    Only({ LET calls == <<Call("get_epics", <<>>)>>
               epics == DictGet(response.data.val, "issues", <<>>)
           IN  IF response.success /\ DOMAIN response.data.val # {}
               THEN Returns([source |-> "mcp", type |-> "epic_list", data |-> epics,
                             message |-> <<"Found ">> \o IntStr(Len(epics)) \o <<" epics">>],
                            calls)
               ELSE Returns([source |-> "mcp_error", error |-> response.error,
                             message |-> <<"Failed to retrieve epics">>], calls) :
           response \in {_make_request("get_epics", reply)} })

\* the epic key the get-epic handler finds: the first word that starts with
\* EPIC- or PROJ-, in upper case
EpicKey(query) ==
    Only({ LET i == First({j \in 1..Len(words) :
                             \/ StartsWith(Upper(words[j]), Keyword["EPIC-"])
                             \/ StartsWith(Upper(words[j]), Keyword["PROJ-"])})
           IN  IF i = 0 THEN None ELSE Some(Upper(words[i])) :
           words \in {Split(query)} })

_handle_get_epic(query, reply) ==
    Only({ LET calls == <<Call("get_epic", <<epic_key.val>>)>>
           IN  IF ~Truthy(epic_key)
               THEN Returns([source |-> "mcp_error",
                             error |-> Some(<<"No epic key found in query">>),
                             message |-> <<"Please specify an epic key (e.g., EPIC-123)">>],
                            <<>>)
               ELSE IF response.success
               THEN Returns([source |-> "mcp", type |-> "epic_detail",
                             data |-> response.data.val,
                             message |-> <<"Retrieved epic ">> \o epic_key.val], calls)
               ELSE Returns([source |-> "mcp_error", error |-> response.error,
                             message |-> <<"Failed to retrieve epic ">> \o epic_key.val],
                            calls) :
           epic_key \in {EpicKey(query)},
           response \in {_make_request("get_epic", reply)} })

\* The project key the create-epic extractor finds before its split fallback
EpicProjectKey(query) ==
    Only({ LET i == First({j \in 1..Len(words) :
                             Lower(words[j]) = Keyword["project"] /\ j + 1 <= Len(words)})
               by_project == IF Contains(query_lower, Keyword["project"]) /\ i # 0
                             THEN Some(Upper(words[i + 1])) ELSE None
               k == First({j \in 1..Len(words) :
                             /\ Lower(words[j]) = Keyword["in"] /\ j + 1 <= Len(words)
                             /\ \E c \in 1..Len(words[j + 1]) :
                                   IsAlpha(Upper(words[j + 1])[c])
                             /\ Len(Upper(words[j + 1])) <= 10})
           IN  IF ~Truthy(by_project) /\ Contains(query_lower, Keyword["in"])
               THEN (IF k # 0 THEN Some(Upper(words[k + 1])) ELSE by_project)
               ELSE by_project :
           query_lower \in {Lower(query)}, words \in {Split(query)} })

\* The summary the create-epic extractor finds before its split fallback
EpicSummary(query) ==
    Only({ LET i == First({j \in 1..Len(words) :
                             /\ Lower(words[j]) \in
                                   {Keyword["title"], Keyword["summary"], Keyword["name"]}
                             /\ j + 1 <= Len(words)})
           IN  IF /\ \/ Contains(query_lower, Keyword["title"])
                     \/ Contains(query_lower, Keyword["summary"])
                     \/ Contains(query_lower, Keyword["name"])
                  /\ i # 0
               THEN Some(JoinSp(SubSeq(words, i + 1, Len(words))))
               ELSE None :
           query_lower \in {Lower(query)}, words \in {Split(query)} })

\* the failure dict of a handler
Failure(error, message) == [source |-> "mcp_error", error |-> error, message |-> message]

\* the create-epic extractor with its split fallback run as soon as either
\* field is missing
EpicFields_fallback_for_either(query) ==
    Only({ IF ~(/\ (~Truthy(project_key) \/ ~Truthy(summary))
                /\ Contains(Lower(query), Keyword["create epic"]))
           THEN [raised |-> FALSE, project_key |-> project_key, summary |-> summary]
           ELSE Only({ IF Len(pieces) < 2
                       THEN [raised |-> TRUE, project_key |-> project_key,
                             summary |-> summary]
                       ELSE Only({ IF Len(parts) >= 2
                                   THEN [raised |-> FALSE,
                                         project_key |-> Some(Upper(parts[1])),
                                         summary |-> Some(JoinSp(Tail(parts)))]
                                   ELSE [raised |-> FALSE, project_key |-> project_key,
                                         summary |-> summary] :
                                   parts \in {Split(Strip(pieces[2]))} }) :
                       pieces \in {SplitOn(query, Keyword["create epic"])} }) :
           project_key \in {EpicProjectKey(query)}, summary \in {EpicSummary(query)} })

\* The fields the create-epic extractor ends with: the split fallback runs
\* only when neither field was found, and its [1] raises IndexError when the
\* query does not contain the lower-case phrase itself
EpicFields(query) ==
    Only({ IF ~(/\ ~Truthy(project_key) /\ ~Truthy(summary)
                /\ Contains(Lower(query), Keyword["create epic"]))
           THEN [raised |-> FALSE, project_key |-> project_key, summary |-> summary]
           ELSE Only({ IF Len(pieces) < 2
                       THEN [raised |-> TRUE, project_key |-> project_key,
                             summary |-> summary]
                       ELSE Only({ IF Len(parts) >= 2
                                   THEN [raised |-> FALSE,
                                         project_key |-> Some(Upper(parts[1])),
                                         summary |-> Some(JoinSp(Tail(parts)))]
                                   ELSE [raised |-> FALSE, project_key |-> project_key,
                                         summary |-> summary] :
                                   parts \in {Split(Strip(pieces[2]))} }) :
                       pieces \in {SplitOn(query, Keyword["create epic"])} }) :
           project_key \in {EpicProjectKey(query)}, summary \in {EpicSummary(query)} })

_handle_create_epic(query, reply) ==
    Only({ LET project_key == fields.project_key
               summary == fields.summary
               calls == <<Call("create_epic", <<project_key.val, summary.val, <<>> >>)>>
           IN  IF fields.raised
               THEN Raises("IndexError", <<>>)
               ELSE IF ~Truthy(project_key)
               THEN Returns(Failure(Some(<<"Project key required">>),
                      <<"To create an epic, please specify a project key. Example: 'Create epic in PROJECT-123 with title My Epic'">>),
                      <<>>)
               ELSE IF ~Truthy(summary)
               THEN Returns(Failure(Some(<<"Epic summary required">>),
                      <<"To create an epic, please provide a summary/title. Example: 'Create epic in PROJECT-123 with title My Epic'">>),
                      <<>>)
               ELSE IF response.success
               THEN Returns([source |-> "mcp", type |-> "epic_created",
                             data |-> response.data.val,
                             message |-> <<"Successfully created epic in project ">>
                                           \o project_key.val], calls)
               ELSE Returns(Failure(response.error,
                                    <<"Failed to create epic: ">> \o response.error.val),
                            calls) :
           fields \in {EpicFields(query)},
           response \in {_make_request("create_epic", reply)} })

\* an update handler that looks the epic up instead of refusing
_handle_update_epic_fetches(query, reply) == _handle_get_epic(query, reply)

_handle_update_epic(query, reply) ==
    Returns(Failure(Some(<<"Epic update requires additional parameters">>),
                    <<"To update an epic, please provide: epic key and fields to update">>),
            <<>>)

_handle_list_sprints(query, reply) ==
    Only({ LET calls == <<Call("get_sprints", <<>>)>>
               sprints == DictGet(response.data.val, "values", <<>>)
           IN  IF response.success /\ DOMAIN response.data.val # {}
               THEN Returns([source |-> "mcp", type |-> "sprint_list", data |-> sprints,
                             message |-> <<"Found ">> \o IntStr(Len(sprints))
                                           \o <<" sprints">>], calls)
               ELSE Returns(Failure(response.error, <<"Failed to retrieve sprints">>),
                            calls) :
           response \in {_make_request("get_sprints", reply)} })

\* the sprint id the get-sprint handler finds: the first word of digits
SprintId(query) ==
    Only({ LET i == First({j \in 1..Len(words) : IsDigit(words[j])})
           IN  IF i = 0 THEN None ELSE Some(IntOf(words[i])) :
           words \in {Split(query)} })

_handle_get_sprint(query, reply) ==
    Only({ LET calls == <<Call("get_sprint", <<sprint_id.val>>)>>
           IN  IF ~TruthyInt(sprint_id)
               THEN Returns(Failure(Some(<<"No sprint ID found in query">>),
                                    <<"Please specify a sprint ID">>), <<>>)
               ELSE IF response.success
               THEN Returns([source |-> "mcp", type |-> "sprint_detail",
                             data |-> response.data.val,
                             message |-> <<"Retrieved sprint ">> \o IntStr(sprint_id.val)],
                            calls)
               ELSE Returns(Failure(response.error,
                                    <<"Failed to retrieve sprint ">>
                                      \o IntStr(sprint_id.val)), calls) :
           sprint_id \in {SprintId(query)},
           response \in {_make_request("get_sprint", reply)} })

\* The sprint name the create-sprint extractor finds before its split fallback
SprintName(query) ==
    Only({ LET i == First({j \in 1..Len(words) :
                             Lower(words[j]) = Keyword["named"] /\ j + 1 <= Len(words)})
               remaining_words == SubSeq(words, i + 1, Len(words))
               stop == First({j \in 1..Len(remaining_words) :
                                /\ Lower(remaining_words[j]) = Keyword["in"]
                                /\ j + 1 <= Len(remaining_words)
                                /\ Lower(remaining_words[j + 1]) = Keyword["board"]})
               sprint_words == IF stop = 0 THEN remaining_words
                               ELSE SubSeq(remaining_words, 1, stop - 1)
           IN  IF Contains(query_lower, Keyword["named"]) /\ i # 0
               THEN Some(JoinSp(sprint_words)) ELSE None :
           query_lower \in {Lower(query)}, words \in {Split(query)} })

\* The board id the create-sprint extractor finds before its split fallback
SprintBoardId(query) ==
    Only({ LET i == First({j \in 1..Len(words) :
                             /\ Lower(words[j]) = Keyword["board"] /\ j + 1 <= Len(words)
                             /\ IntParses(words[j + 1])})
               after_board == IF Contains(query_lower, Keyword["board"]) /\ i # 0
                              THEN Some(IntOf(words[i + 1])) ELSE None
               k == First({j \in 1..Len(words) :
                             /\ Lower(words[j]) = Keyword["in"] /\ j + 1 <= Len(words)
                             /\ Lower(words[j + 1]) = Keyword["board"]
                             /\ j + 2 <= Len(words)
                             /\ IntParses(words[j + 2])})
           IN  IF ~TruthyInt(after_board) /\ Contains(query_lower, Keyword["in"]) /\ k # 0
               THEN Some(IntOf(words[k + 2]))
               ELSE after_board :
           query_lower \in {Lower(query)}, words \in {Split(query)} })

\* The fields the create-sprint extractor ends with, after its split fallback
SprintFields(query) ==
    Only({ IF ~(/\ ~Truthy(sprint_name) /\ ~TruthyInt(board_id)
                /\ Contains(Lower(query), Keyword["create sprint"]))
           THEN [raised |-> FALSE, sprint_name |-> sprint_name, board_id |-> board_id]
           ELSE Only({ IF Len(pieces) < 2
                       THEN [raised |-> TRUE, sprint_name |-> sprint_name,
                             board_id |-> board_id]
                       ELSE Only({ IF Len(parts) >= 2 /\ IntParses(parts[1])
                                   THEN [raised |-> FALSE,
                                         sprint_name |-> Some(JoinSp(Tail(parts))),
                                         board_id |-> Some(IntOf(parts[1]))]
                                   ELSE IF Len(parts) >= 2
                                   THEN [raised |-> FALSE,
                                         sprint_name |-> Some(JoinSp(parts)),
                                         board_id |-> board_id]
                                   ELSE [raised |-> FALSE, sprint_name |-> sprint_name,
                                         board_id |-> board_id] :
                                   parts \in {Split(Strip(pieces[2]))} }) :
                       pieces \in {SplitOn(query, Keyword["create sprint"])} }) :
           sprint_name \in {SprintName(query)}, board_id \in {SprintBoardId(query)} })

_handle_create_sprint(query, reply) ==
    Only({ LET sprint_name == fields.sprint_name
               board_id == fields.board_id
               calls == <<Call("create_sprint", <<sprint_name.val, board_id.val>>)>>
           IN  IF fields.raised
               THEN Raises("IndexError", <<>>)
               ELSE IF ~Truthy(sprint_name)
               THEN Returns(Failure(Some(<<"Sprint name required">>),
                      <<"To create a sprint, please provide a name. Example: 'Create sprint named Sprint 1'">>),
                      <<>>)
               ELSE IF ~TruthyInt(board_id)
               THEN Returns(Failure(Some(<<"Board ID required">>),
                      <<"To create a sprint, please provide a board ID. Example: 'Create sprint in board 123 named Sprint 1'">>),
                      <<>>)
               ELSE IF response.success
               THEN Returns([source |-> "mcp", type |-> "sprint_created",
                             data |-> response.data.val,
                             message |-> <<"Successfully created sprint '">>
                                           \o sprint_name.val \o <<"' in board ">>
                                           \o IntStr(board_id.val)], calls)
               ELSE Returns(Failure(response.error,
                                    <<"Failed to create sprint: ">> \o response.error.val),
                            calls) :
           fields \in {SprintFields(query)},
           response \in {_make_request("create_sprint", reply)} })

_handle_update_sprint(query, reply) ==
    Returns(Failure(Some(<<"Sprint update requires additional parameters">>),
                    <<"To update a sprint, please provide: sprint ID and fields to update">>),
            <<>>)

\* the normalized fields of one board of the listing
BoardInfo(board) ==
    [id |-> DictGet(board, "id", "None"),
     name |-> DictGet(board, "name", "None"),
     type |-> DictGet(board, "type", "None"),
     location |-> DictGet(DictGet(board, "location", EmptyDict), "projectKey", "Unknown")]

_handle_list_boards(query, reply) ==
    Only({ LET calls == <<Call("get_boards", <<>>)>>
               boards_data == DictGet(response.data.val, "values", <<>>)
               boards_info == [b \in 1..Len(boards_data) |-> BoardInfo(boards_data[b])]
           IN  IF response.success
               THEN Returns([source |-> "mcp", type |-> "boards_list", data |-> boards_info,
                             message |-> <<"Found ">> \o IntStr(Len(boards_info))
                                           \o <<" boards">>], calls)
               ELSE Returns(Failure(response.error,
                                    <<"Failed to retrieve boards: ">> \o response.error.val),
                            calls) :
           response \in {_make_request("get_boards", reply)} })

\* the board id the get-board handler finds: the integer after the first
\* "board" that is followed by one
BoardId(query) ==
    Only({ LET i == First({j \in 1..Len(words) :
                             /\ Lower(words[j]) = Keyword["board"] /\ j + 1 <= Len(words)
                             /\ IntParses(words[j + 1])})
           IN  IF i = 0 THEN None ELSE Some(IntOf(words[i + 1])) :
           words \in {Split(query)} })

_handle_get_board(query, reply) ==
    Only({ LET calls == <<Call("get_board", <<board_id.val>>)>>
           IN  IF ~TruthyInt(board_id)
               THEN Returns(Failure(Some(<<"Board ID required">>),
                      <<"To get board details, please specify a board ID. Example: 'Show board 123'">>),
                      <<>>)
               ELSE IF response.success
               THEN Returns([source |-> "mcp", type |-> "board_details",
                             data |-> response.data.val,
                             message |-> <<"Board details for board ">>
                                           \o IntStr(board_id.val)], calls)
               ELSE Returns(Failure(response.error,
                                    <<"Failed to retrieve board ">> \o IntStr(board_id.val)
                                      \o <<": ">> \o response.error.val), calls) :
           board_id \in {BoardId(query)},
           response \in {_make_request("get_board", reply)} })

\* the dispatcher's if-chain with its first two tests exchanged: create, add
\* and new are looked for before list, show and get all
Verb_create_first(query) ==
    Only({ IF \/ Contains(query_lower, Keyword["create"])
              \/ Contains(query_lower, Keyword["add"])
              \/ Contains(query_lower, Keyword["new"])
           THEN "create"
           ELSE IF \/ Contains(query_lower, Keyword["list"])
                   \/ Contains(query_lower, Keyword["show"])
                   \/ Contains(query_lower, Keyword["get all"])
           THEN "list"
           ELSE IF \/ Contains(query_lower, Keyword["update"])
                   \/ Contains(query_lower, Keyword["modify"])
                   \/ Contains(query_lower, Keyword["change"])
           THEN "update"
           ELSE "get" :
           query_lower \in {Lower(query)} })

\* The verb the dispatcher reads in a query, by the order of its if-chain
Verb(query) ==
    Only({ IF \/ Contains(query_lower, Keyword["list"])
              \/ Contains(query_lower, Keyword["show"])
              \/ Contains(query_lower, Keyword["get all"])
           THEN "list"
           ELSE IF \/ Contains(query_lower, Keyword["create"])
                   \/ Contains(query_lower, Keyword["add"])
                   \/ Contains(query_lower, Keyword["new"])
           THEN "create"
           ELSE IF \/ Contains(query_lower, Keyword["update"])
                   \/ Contains(query_lower, Keyword["modify"])
                   \/ Contains(query_lower, Keyword["change"])
           THEN "update"
           ELSE "get" :
           query_lower \in {Lower(query)} })

\* MCPManager.handle_epic_query
handle_epic_query(query, reply) ==
    Only({ CASE verb = "list" -> _handle_list_epics(query, reply)
             [] verb = "create" -> _handle_create_epic(query, reply)
             [] verb = "update" -> _handle_update_epic(query, reply)
             [] OTHER -> _handle_get_epic(query, reply) :
           verb \in {Verb(query)} })

\* MCPManager.handle_sprint_query
handle_sprint_query(query, reply) ==
    Only({ CASE verb = "list" -> _handle_list_sprints(query, reply)
             [] verb = "create" -> _handle_create_sprint(query, reply)
             [] verb = "update" -> _handle_update_sprint(query, reply)
             [] OTHER -> _handle_get_sprint(query, reply) :
           verb \in {Verb(query)} })

\* MCPManager.handle_board_query: only its list branch, else get
handle_board_query(query, reply) ==
    IF Verb(query) = "list"
    THEN _handle_list_boards(query, reply)
    ELSE _handle_get_board(query, reply)

(***************************************************************************)
(* Queries                                                                 *)
(***************************************************************************)
\* The queries of the tests, of the guidance messages and of the handlers'
\* branches, each as the characters of its words joined by a space
Query ==
    "Create epic in DEMO with title Test Epic" :>
        JoinSp(<<Word["Create"], Word["epic"], Word["in"], Word["DEMO"],
                 Word["with"], Word["title"], Word["Test"], Word["Epic"]>>) @@
    "Create epic" :> JoinSp(<<Word["Create"], Word["epic"]>>) @@
    "create epic" :> JoinSp(<<Word["create"], Word["epic"]>>) @@
    "create epic DEMO Test" :>
        JoinSp(<<Word["create"], Word["epic"], Word["DEMO"], Word["Test"]>>) @@
    "Create epic in DEMO" :>
        JoinSp(<<Word["Create"], Word["epic"], Word["in"], Word["DEMO"]>>) @@
    "Create epic title Test" :>
        JoinSp(<<Word["Create"], Word["epic"], Word["title"], Word["Test"]>>) @@
    "Create epic project demo title My Epic" :>
        JoinSp(<<Word["Create"], Word["epic"], Word["project"], Word["demo"],
                 Word["title"], Word["My"], Word["Epic"]>>) @@
    "How do I create an epic?" :>
        JoinSp(<<Word["How"], Word["do"], Word["I"], Word["create"], Word["an"],
                 Word["epic?"]>>) @@
    "Create epic in PROJECT-123 with title My Epic" :>
        JoinSp(<<Word["Create"], Word["epic"], Word["in"], Word["PROJECT-123"],
                 Word["with"], Word["title"], Word["My"], Word["Epic"]>>) @@
    "Show epics" :> JoinSp(<<Word["Show"], Word["epics"]>>) @@
    "list all epics" :> JoinSp(<<Word["list"], Word["all"], Word["epics"]>>) @@
    "epic EPIC-123" :> JoinSp(<<Word["epic"], Word["EPIC-123"]>>) @@
    "epic status" :> JoinSp(<<Word["epic"], Word["status"]>>) @@
    "Update epic EPIC-123" :>
        JoinSp(<<Word["Update"], Word["epic"], Word["EPIC-123"]>>) @@
    "Create sprint in board 123 named Sprint 1" :>
        JoinSp(<<Word["Create"], Word["sprint"], Word["in"], Word["board"],
                 Word["123"], Word["named"], Word["Sprint"], Word["1"]>>) @@
    "Create sprint named Sprint 1 in board 5" :>
        JoinSp(<<Word["Create"], Word["sprint"], Word["named"], Word["Sprint"],
                 Word["1"], Word["in"], Word["board"], Word["5"]>>) @@
    "Create sprint" :> JoinSp(<<Word["Create"], Word["sprint"]>>) @@
    "create sprint" :> JoinSp(<<Word["create"], Word["sprint"]>>) @@
    "create sprint 5 Alpha" :>
        JoinSp(<<Word["create"], Word["sprint"], Word["5"], Word["Alpha"]>>) @@
    "create sprint Alpha Beta" :>
        JoinSp(<<Word["create"], Word["sprint"], Word["Alpha"], Word["Beta"]>>) @@
    "Create sprint named Alpha" :>
        JoinSp(<<Word["Create"], Word["sprint"], Word["named"], Word["Alpha"]>>) @@
    "Create sprint in board 0 named Alpha" :>
        JoinSp(<<Word["Create"], Word["sprint"], Word["in"], Word["board"],
                 Word["0"], Word["named"], Word["Alpha"]>>) @@
    "Show me all sprints" :>
        JoinSp(<<Word["Show"], Word["me"], Word["all"], Word["sprints"]>>) @@
    "sprint 42" :> JoinSp(<<Word["sprint"], Word["42"]>>) @@
    "sprint 0" :> JoinSp(<<Word["sprint"], Word["0"]>>) @@
    "sprint status" :> JoinSp(<<Word["sprint"], Word["status"]>>) @@
    "Update sprint 5" :> JoinSp(<<Word["Update"], Word["sprint"], Word["5"]>>) @@
    "Show boards" :> JoinSp(<<Word["Show"], Word["boards"]>>) @@
    "board 7" :> JoinSp(<<Word["board"], Word["7"]>>) @@
    "board 0" :> JoinSp(<<Word["board"], Word["0"]>>) @@
    "board info" :> JoinSp(<<Word["board"], Word["info"]>>) @@
    "How do I" :> JoinSp(<<Word["How"], Word["do"], Word["I"]>>) @@
    "Hello!" :> JoinSp(<<Word["Hello!"]>>) @@
    "What is new?" :> JoinSp(<<Word["What"], Word["is"], Word["new?"]>>) @@
    "add item" :> JoinSp(<<Word["add"], Word["item"]>>) @@
    "Show new epics" :> JoinSp(<<Word["Show"], Word["new"], Word["epics"]>>) @@
    "Update new sprint" :> JoinSp(<<Word["Update"], Word["new"], Word["sprint"]>>) @@
    "Show board 123" :> JoinSp(<<Word["Show"], Word["board"], Word["123"]>>) @@
    "Create epic in DEMO with title My project Epic" :>
        JoinSp(<<Word["Create"], Word["epic"], Word["in"], Word["DEMO"],
                 Word["with"], Word["title"], Word["My"], Word["project"],
                 Word["Epic"]>>) @@
    "list sprints for epic" :>
        JoinSp(<<Word["list"], Word["sprints"], Word["for"], Word["epic"]>>) @@
    "create epic in DEMO" :>
        JoinSp(<<Word["create"], Word["epic"], Word["in"], Word["DEMO"]>>) @@
    "create sprint in board 5" :>
        JoinSp(<<Word["create"], Word["sprint"], Word["in"], Word["board"],
                 Word["5"]>>) @@
    "" :> JoinSp(<<>>)

ScenarioQueries == { Query[text] : text \in DOMAIN Query }

\* The longest generated query, in words
MaxWords == 3

Vocabulary ==
    { Word["Create"], Word["create"], Word["epic"], Word["sprint"], Word["in"], Word["board"], Word["named"], Word["title"],
      Word["DEMO"], Word["5"] }

\* Every query of at most MaxWords words of the vocabulary
GeneratedQueries ==
    UNION { { JoinSp(ws) : ws \in [1..n -> Vocabulary] } : n \in 0..MaxWords }

Queries == ScenarioQueries \cup GeneratedQueries

(***************************************************************************)
(* Generator: LocalLLM                                                     *)
(***************************************************************************)
\* the characters of the canned message FallbackEpic
FallbackEpicChars ==
    <<"I", " ", "c", "a", "n", " ", "h", "e", "l", "p", " ", "y", "o", "u",
      " ", "w", "i", "t", "h", " ", "E", "p", "i", "c", "-", "r", "e", "l",
      "a", "t", "e", "d", " ", "q", "u", "e", "s", "t", "i", "o", "n", "s",
      ".", " ", "E", "p", "i", "c", "s", " ", "a", "r", "e", " ", "l", "a",
      "r", "g", "e", " ", "p", "i", "e", "c", "e", "s", " ", "o", "f", " ",
      "w", "o", "r", "k", " ", "t", "h", "a", "t", " ", "c", "a", "n", " ",
      "b", "e", " ", "b", "r", "o", "k", "e", "n", " ", "d", "o", "w", "n",
      " ", "i", "n", "t", "o", " ", "s", "m", "a", "l", "l", "e", "r", " ",
      "t", "a", "s", "k", "s", ".", " ", "Y", "o", "u", " ", "c", "a", "n",
      " ", "c", "r", "e", "a", "t", "e", ",", " ", "v", "i", "e", "w", ",",
      " ", "a", "n", "d", " ", "m", "a", "n", "a", "g", "e", " ", "e", "p",
      "i", "c", "s", " ", "i", "n", " ", "J", "i", "r", "a", " ", "S", "o",
      "f", "t", "w", "a", "r", "e", " ", "C", "l", "o", "u", "d", ".">>

\* the characters of the canned message FallbackSprint
FallbackSprintChars ==
    <<"I", " ", "c", "a", "n", " ", "h", "e", "l", "p", " ", "y", "o", "u",
      " ", "w", "i", "t", "h", " ", "S", "p", "r", "i", "n", "t", "-", "r",
      "e", "l", "a", "t", "e", "d", " ", "q", "u", "e", "s", "t", "i", "o",
      "n", "s", ".", " ", "S", "p", "r", "i", "n", "t", "s", " ", "a", "r",
      "e", " ", "t", "i", "m", "e", "-", "b", "o", "x", "e", "d", " ", "i",
      "t", "e", "r", "a", "t", "i", "o", "n", "s", " ", "i", "n", " ", "A",
      "g", "i", "l", "e", " ", "d", "e", "v", "e", "l", "o", "p", "m", "e",
      "n", "t", ",", " ", "t", "y", "p", "i", "c", "a", "l", "l", "y", " ",
      "l", "a", "s", "t", "i", "n", "g", " ", "1", "-", "4", " ", "w", "e",
      "e", "k", "s", ".", " ", "Y", "o", "u", " ", "c", "a", "n", " ", "c",
      "r", "e", "a", "t", "e", ",", " ", "m", "a", "n", "a", "g", "e", ",",
      " ", "a", "n", "d", " ", "t", "r", "a", "c", "k", " ", "s", "p", "r",
      "i", "n", "t", "s", " ", "i", "n", " ", "J", "i", "r", "a", " ", "S",
      "o", "f", "t", "w", "a", "r", "e", " ", "C", "l", "o", "u", "d", ".">>

\* the characters of the canned message FallbackCreate
FallbackCreateChars ==
    <<"I", " ", "c", "a", "n", " ", "h", "e", "l", "p", " ", "y", "o", "u",
      " ", "c", "r", "e", "a", "t", "e", " ", "n", "e", "w", " ", "i", "t",
      "e", "m", "s", " ", "i", "n", " ", "J", "i", "r", "a", ".", " ", "W",
      "h", "e", "t", "h", "e", "r", " ", "y", "o", "u", " ", "n", "e", "e",
      "d", " ", "t", "o", " ", "c", "r", "e", "a", "t", "e", " ", "e", "p",
      "i", "c", "s", ",", " ", "s", "p", "r", "i", "n", "t", "s", ",", " ",
      "o", "r", " ", "i", "s", "s", "u", "e", "s", ",", " ", "I", " ", "c",
      "a", "n", " ", "g", "u", "i", "d", "e", " ", "y", "o", "u", " ", "t",
      "h", "r", "o", "u", "g", "h", " ", "t", "h", "e", " ", "p", "r", "o",
      "c", "e", "s", "s", ".">>

\* the characters of the canned message FallbackQuestion
FallbackQuestionChars ==
    <<"I", " ", "c", "a", "n", " ", "h", "e", "l", "p", " ", "y", "o", "u",
      " ", "u", "n", "d", "e", "r", "s", "t", "a", "n", "d", " ", "h", "o",
      "w", " ", "t", "o", " ", "u", "s", "e", " ", "J", "i", "r", "a", " ",
      "S", "o", "f", "t", "w", "a", "r", "e", " ", "C", "l", "o", "u", "d",
      ".", " ", "P", "l", "e", "a", "s", "e", " ", "a", "s", "k", " ", "m",
      "e", " ", "a", " ", "s", "p", "e", "c", "i", "f", "i", "c", " ", "q",
      "u", "e", "s", "t", "i", "o", "n", " ", "a", "b", "o", "u", "t", " ",
      "e", "p", "i", "c", "s", ",", " ", "s", "p", "r", "i", "n", "t", "s",
      ",", " ", "o", "r", " ", "a", "n", "y", " ", "o", "t", "h", "e", "r",
      " ", "J", "i", "r", "a", " ", "f", "e", "a", "t", "u", "r", "e", "s",
      ".">>

\* the characters of the canned message FallbackDefault
FallbackDefaultChars ==
    <<"I", "'", "m", " ", "h", "e", "r", "e", " ", "t", "o", " ", "h", "e",
      "l", "p", " ", "y", "o", "u", " ", "w", "i", "t", "h", " ", "J", "i",
      "r", "a", " ", "S", "o", "f", "t", "w", "a", "r", "e", " ", "C", "l",
      "o", "u", "d", ".", " ", "I", " ", "c", "a", "n", " ", "a", "s", "s",
      "i", "s", "t", " ", "w", "i", "t", "h", " ", "q", "u", "e", "s", "t",
      "i", "o", "n", "s", " ", "a", "b", "o", "u", "t", " ", "e", "p", "i",
      "c", "s", ",", " ", "s", "p", "r", "i", "n", "t", "s", ",", " ", "i",
      "s", "s", "u", "e", "s", ",", " ", "a", "n", "d", " ", "o", "t", "h",
      "e", "r", " ", "J", "i", "r", "a", " ", "f", "e", "a", "t", "u", "r",
      "e", "s", ".", " ", "W", "h", "a", "t", " ", "w", "o", "u", "l", "d",
      " ", "y", "o", "u", " ", "l", "i", "k", "e", " ", "t", "o", " ", "k",
      "n", "o", "w", "?">>

FallbackEpic == <<"I can help you with Epic-related questions. Epics are large pieces of work that can be broken down into smaller tasks. You can create, view, and manage epics in Jira Software Cloud.">>

FallbackSprint == <<"I can help you with Sprint-related questions. Sprints are time-boxed iterations in Agile development, typically lasting 1-4 weeks. You can create, manage, and track sprints in Jira Software Cloud.">>

FallbackCreate == <<"I can help you create new items in Jira. Whether you need to create epics, sprints, or issues, I can guide you through the process.">>

FallbackQuestion == <<"I can help you understand how to use Jira Software Cloud. Please ask me a specific question about epics, sprints, or any other Jira features.">>

FallbackDefault == <<"I'm here to help you with Jira Software Cloud. I can assist with questions about epics, sprints, issues, and other Jira features. What would you like to know?">>

\* The characters of the string literals that are kept as one atom and can
\* reach the conversation log
LiteralChars ==
    FallbackEpic[1] :> FallbackEpicChars @@ FallbackSprint[1] :> FallbackSprintChars
    @@ FallbackCreate[1] :> FallbackCreateChars
    @@ FallbackQuestion[1] :> FallbackQuestionChars
    @@ FallbackDefault[1] :> FallbackDefaultChars

\* the characters of a text
RECURSIVE Characters(_)
Characters(text) ==
    IF text = <<>> THEN <<>>
    ELSE (IF text[1] \in DOMAIN LiteralChars THEN LiteralChars[text[1]] ELSE <<text[1]>>)
         \o Characters(Tail(text))

\* a continuation: a sentence and an unfinished one
g_Use_epics_Ok == <<"U", "s", "e", " ", "e", "p", "i", "c", "s", ".", " ", "O", "k">>

\* a continuation that is blank
g_blank == <<" ">>

\* What the text-generation pipeline does with one prompt: it raises, or it
\* returns the prompt followed by a continuation, or the continuation alone
GeneratorOutcomes ==
    { [raises |-> TRUE, echo |-> FALSE, text |-> <<>>],
      [raises |-> FALSE, echo |-> FALSE, text |-> g_Use_epics_Ok],
      [raises |-> FALSE, echo |-> TRUE, text |-> g_blank] }

\* LocalLLM._format_prompt
_format_prompt(user_input, context) ==
    IF context # <<>>
    THEN <<"You are a helpful Jira customer support chatbot. Use the following context to answer the user's question:\n\nContext: ">>
         \o context \o <<"\n\nUser: ">> \o user_input \o <<"\n\nAssistant:">>
    ELSE <<"You are a helpful Jira customer support chatbot. Answer the user's question about Jira Software Cloud:\n\nUser: ">>
         \o user_input \o <<"\n\nAssistant:">>

\* re.sub(r'\s+', ' ', s), after re.sub(r'\n+', ' ', s)
RECURSIVE CollapseWhitespace(_)
CollapseWhitespace(s) ==
    IF s = <<>> THEN <<>>
    ELSE IF s[1] \in Whitespace
    THEN <<" ">> \o CollapseWhitespace(LStrip(s))
    ELSE <<s[1]>> \o CollapseWhitespace(Tail(s))

\* s.endswith('.')
EndsWithDot(s) == s # <<>> /\ s[Len(s)] = "."

\* LocalLLM._clean_response
_clean_response(text) ==
    Only({ LET sentences == IF ~EndsWithDot(all[Len(all)])
                            THEN SubSeq(all, 1, Len(all) - 1) ELSE all
               joined == Join(<<".", " ">>, sentences)
               cleaned == IF joined # <<>> /\ ~EndsWithDot(joined)
                          THEN joined \o <<".">> ELSE joined
           IN  Strip(CollapseWhitespace(cleaned)) :
           all \in {SplitOn(text, <<".", " ">>)} })

\* LocalLLM._generate_fallback_response
_generate_fallback_response(prompt) ==
    Only({ IF \/ Contains(prompt_lower, Keyword["epic"])
              \/ Contains(prompt_lower, Keyword["epics"])
           THEN FallbackEpic
           ELSE IF \/ Contains(prompt_lower, Keyword["sprint"])
                   \/ Contains(prompt_lower, Keyword["sprints"])
           THEN FallbackSprint
           ELSE IF \E k \in {Keyword["create"], Keyword["add"], Keyword["new"]} :
                      Contains(prompt_lower, k)
           THEN FallbackCreate
           ELSE IF \E k \in {Keyword["how"], Keyword["what"], Keyword["where"],
                             Keyword["when"], Keyword["why"]} :
                      Contains(prompt_lower, k)
           THEN FallbackQuestion
           ELSE FallbackDefault :
           prompt_lower \in {Lower(Characters(prompt))} })

\* the generated text without the prompt it may start with, stripped
ResponseText(full_prompt, outcome) ==
    LET generated_text == IF outcome.echo THEN full_prompt \o outcome.text
                          ELSE outcome.text
    IN  IF StartsWith(generated_text, full_prompt)
        THEN Strip(SubSeq(generated_text, Len(full_prompt) + 1, Len(generated_text)))
        ELSE Strip(generated_text)

\* generate_response without the test of the cleaned text: it returns what
\* _clean_response left, empty or not
generate_response_returns_cleaned(prompt, context, loaded, outcome) ==
    IF ~loaded THEN _generate_fallback_response(prompt)
    ELSE IF outcome.raises THEN _generate_fallback_response(prompt)
    ELSE _clean_response(ResponseText(_format_prompt(prompt, context), outcome))

\* LocalLLM.generate_response; loaded: the pipeline was loaded at construction
generate_response(prompt, context, loaded, outcome) ==
    IF ~loaded THEN _generate_fallback_response(prompt)
    ELSE IF outcome.raises THEN _generate_fallback_response(prompt)
    ELSE Only({ IF cleaned # <<>> THEN cleaned ELSE _generate_fallback_response(prompt) :
                cleaned \in {_clean_response(
                                ResponseText(_format_prompt(prompt, context), outcome))} })

(***************************************************************************)
(* IntentClassifier                                                        *)
(***************************************************************************)
\* IntentClassifier.intent_keywords, in the order of the dict
intent_keywords ==
    << <<"epic", <<Keyword["epic"], Keyword["epics"], Keyword["epic-"], Keyword["large story"], Keyword["feature"]>> >>,
       <<"sprint", <<Keyword["sprint"], Keyword["sprints"], Keyword["iteration"], Keyword["sprint planning"], Keyword["agile"]>> >>,
       <<"issue", <<Keyword["issue"], Keyword["issues"], Keyword["task"], Keyword["story"], Keyword["bug"], Keyword["ticket"]>> >>,
       <<"create", <<Keyword["create"], Keyword["add"], Keyword["new"], Keyword["make"], Keyword["generate"]>> >>,
       <<"list", <<Keyword["list"], Keyword["show"], Keyword["display"], Keyword["get all"], Keyword["find all"]>> >>,
       <<"get", <<Keyword["get"], Keyword["find"], Keyword["search"], Keyword["retrieve"], Keyword["fetch"]>> >>,
       <<"update", <<Keyword["update"], Keyword["modify"], Keyword["change"], Keyword["edit"], Keyword["alter"]>> >>,
       <<"delete", <<Keyword["delete"], Keyword["remove"], Keyword["cancel"], Keyword["archive"]>> >>,
       <<"help", <<Keyword["help"], Keyword["how"], Keyword["what"], Keyword["explain"], Keyword["guide"], Keyword["tutorial"]>> >> >>

\* A score is the fraction n/d
Fraction(n, d) == [n |-> n, d |-> d]

LessEq(a, b) == a.n * b.d <= b.n * a.d

SameFraction(a, b) == a.n * b.d = b.n * a.d

\* the members of a set of integers, in increasing order
RECURSIVE Ascending(_)
Ascending(I) == IF I = {} THEN <<>> ELSE <<Min(I)>> \o Ascending(I \ {Min(I)})

\* the number of keywords of the i-th label that occur in query_lower
KeywordHits(query_lower) ==
    [i \in 1..Len(intent_keywords) |->
       Cardinality({k \in 1..Len(intent_keywords[i][2]) :
                      Contains(query_lower, intent_keywords[i][2][k])})]

\* the score map with every label in it, the unmatched ones with score 0
IntentScores_with_zeros(score) ==
    [i \in 1..Len(intent_keywords) |->
       [label |-> intent_keywords[i][1],
        score |-> Fraction(score[i], Len(intent_keywords[i][2]))]]

\* the labels with a positive score, each with its score, in dict order
IntentScores(score) ==
    LET hits == Ascending({i \in 1..Len(intent_keywords) : score[i] > 0})
    IN  [j \in 1..Len(hits) |->
           [label |-> intent_keywords[hits[j]][1],
            score |-> Fraction(score[hits[j]], Len(intent_keywords[hits[j]][2]))]]

\* classify_intent of a text given as its characters
ClassifyCharacters(characters) ==
    Only({ IntentScores(score) :
           score \in { KeywordHits(query_lower) : query_lower \in {Lower(characters)} } })

\* classify_intent of each canned message, evaluated once
LiteralIntents == [atom \in DOMAIN LiteralChars |-> ClassifyCharacters(LiteralChars[atom])]

\* IntentClassifier.classify_intent: the dict as its items in insertion order
classify_intent(query) ==
    IF Len(query) = 1 /\ query[1] \in DOMAIN LiteralChars
    THEN LiteralIntents[query[1]]
    ELSE ClassifyCharacters(Characters(query))

(***************************************************************************)
(* Conversation store and query router: ChatbotCore                        *)
(***************************************************************************)
\* ChatbotCore.max_history
max_history == 10

\* the window of get_conversation_context and _extract_recent_topics
ContextWindow == 5

\* ChatMessage; its timestamp, the wall-clock time of the append, is left out
ChatMessage(role, content, metadata) ==
    [role |-> role, content |-> content, metadata |-> metadata]

\* the last n entries of a list: s[-n:]
LastN(s, n) == IF Len(s) > n THEN SubSeq(s, Len(s) - n + 1, Len(s)) ELSE s

\* add_message with the slice taken from the wrong end: on overflow the oldest
\* max_history turns are kept and the newest is dropped
add_message_keeps_oldest(history, role, content, metadata) ==
    LET added == Append(history, ChatMessage(role, content, metadata))
    IN  IF Len(added) > max_history THEN SubSeq(added, 1, max_history) ELSE added

\* ChatbotCore.add_message: the new conversation_history
add_message(history, role, content, metadata) ==
    LET added == Append(history, ChatMessage(role, content, metadata))
    IN  IF Len(added) > max_history THEN LastN(added, max_history) ELSE added

\* the context made of the whole log instead of its last ContextWindow turns
get_conversation_context_of_whole_log(history) ==
    LET context_parts == [i \in 1..Len(history) |->
                            <<history[i].role, ":", " ">> \o history[i].content]
    IN  IF history = <<>> THEN <<>> ELSE Join(<<"\n">>, context_parts)

\* ChatbotCore.get_conversation_context
get_conversation_context(history) ==
    LET recent == LastN(history, ContextWindow)
        context_parts == [i \in 1..Len(recent) |->
                            <<recent[i].role, ":", " ">> \o recent[i].content]
    IN  IF history = <<>> THEN <<>> ELSE Join(<<"\n">>, context_parts)

\* the confidence taken as the smallest score of the map
Confidence_of_weakest_label(intents) ==
    IF intents = <<>> THEN Fraction(1, 2)
    ELSE LET worst == CHOOSE i \in 1..Len(intents) :
                        \A j \in 1..Len(intents) : LessEq(intents[i].score, intents[j].score)
         IN  intents[worst].score

\* max(intents.values()) if intents else 0.5
Confidence(intents) ==
    IF intents = <<>> THEN Fraction(1, 2)
    ELSE LET best == CHOOSE i \in 1..Len(intents) :
                       \A j \in 1..Len(intents) : LessEq(intents[j].score, intents[i].score)
         IN  intents[best].score

\* the source tags with external_data for every external context that is not
\* None, the empty one too
SourceTags_for_any_context(external_context, intents) ==
    (IF external_context.some THEN << <<"external_data">> >> ELSE <<>>)
    \o [i \in 1..Len(intents) |-> <<"intent_", intents[i].label>>]

\* the sources of process_query: external_data for a truthy external context,
\* then intent_<label> for every key of intents
SourceTags(external_context, intents) ==
    (IF Truthy(external_context) THEN << <<"external_data">> >> ELSE <<>>)
    \o [i \in 1..Len(intents) |-> <<"intent_", intents[i].label>>]

\* process_query that stores the answer before the user turn it answers
process_query_answer_stored_first(history, user_input, external_context, loaded, outcome) ==
    Only({ Only({ Only({
        LET sources == SourceTags(external_context, intents)
            metadata == [intents |-> intents,
                         has_external_context |-> external_context.some]
            chat_reply == [message |-> response_text, confidence |-> Confidence(intents),
                           sources |-> sources, metadata |-> metadata]
        IN  [history |-> add_message(add_message(history, "assistant", response_text,
                                                Some(metadata)),
                                    "user", user_input, None),
             appends |-> <<ChatMessage("user", user_input, None),
                           ChatMessage("assistant", response_text, Some(metadata))>>,
             response |-> chat_reply,
             generated |-> <<[prompt |-> user_input, context |-> full_context,
                              external_context |-> external_context,
                              outcome |-> IF loaded THEN outcome.text ELSE <<"not loaded">>,
                              raised |-> loaded /\ outcome.raises]>>] :
        response_text \in {generate_response(user_input, full_context, loaded, outcome)} }) :
        full_context \in {IF Truthy(external_context)
                          THEN get_conversation_context(history1)
                                 \o <<"\n\nAdditional Context: ">> \o external_context.val
                          ELSE get_conversation_context(history1)} }) :
        history1 \in {add_message(history, "user", user_input, None)},
        intents \in {classify_intent(user_input)} })

\* process_query that takes the conversation context before it appends the
\* user turn
process_query_context_before_append(history, user_input, external_context, loaded, outcome) ==
    Only({ Only({ Only({
        LET sources == SourceTags(external_context, intents)
            metadata == [intents |-> intents,
                         has_external_context |-> external_context.some]
            chat_reply == [message |-> response_text, confidence |-> Confidence(intents),
                           sources |-> sources, metadata |-> metadata]
        IN  [history |-> add_message(history1, "assistant", response_text, Some(metadata)),
             appends |-> <<ChatMessage("user", user_input, None),
                           ChatMessage("assistant", response_text, Some(metadata))>>,
             response |-> chat_reply,
             generated |-> <<[prompt |-> user_input, context |-> full_context,
                              external_context |-> external_context,
                              outcome |-> IF loaded THEN outcome.text ELSE <<"not loaded">>,
                              raised |-> loaded /\ outcome.raises]>>] :
        response_text \in {generate_response(user_input, full_context, loaded, outcome)} }) :
        full_context \in {IF Truthy(external_context)
                          THEN get_conversation_context(history)
                                 \o <<"\n\nAdditional Context: ">> \o external_context.val
                          ELSE get_conversation_context(history)} }) :
        history1 \in {add_message(history, "user", user_input, None)},
        intents \in {classify_intent(user_input)} })

\* ChatbotCore.process_query: the new conversation_history, the ChatResponse
\* and the call made to the generator
process_query(history, user_input, external_context, loaded, outcome) ==
    Only({ Only({ Only({
        LET sources == SourceTags(external_context, intents)
            metadata == [intents |-> intents,
                         has_external_context |-> external_context.some]
            chat_reply == [message |-> response_text, confidence |-> Confidence(intents),
                           sources |-> sources, metadata |-> metadata]
        IN  [history |-> add_message(history1, "assistant", response_text, Some(metadata)),
             appends |-> <<ChatMessage("user", user_input, None),
                           ChatMessage("assistant", response_text, Some(metadata))>>,
             response |-> chat_reply,
             generated |-> <<[prompt |-> user_input, context |-> full_context,
                              external_context |-> external_context,
                              outcome |-> IF loaded THEN outcome.text ELSE <<"not loaded">>,
                              raised |-> loaded /\ outcome.raises]>>] :
        response_text \in {generate_response(user_input, full_context, loaded, outcome)} }) :
        full_context \in {IF Truthy(external_context)
                          THEN get_conversation_context(history1)
                                 \o <<"\n\nAdditional Context: ">> \o external_context.val
                          ELSE get_conversation_context(history1)} }) :
        history1 \in {add_message(history, "user", user_input, None)},
        intents \in {classify_intent(user_input)} })

\* reset_conversation that keeps the latest turn
reset_conversation_keeps_last(history) == LastN(history, 1)

\* ChatbotCore.reset_conversation: the new conversation_history
reset_conversation(history) == <<>>

\* ChatbotCore._extract_recent_topics, as the set that list(set(topics)) holds
_extract_recent_topics(history) ==
    LET recent == LastN(history, ContextWindow)
    IN  UNION { { intents[j].label : j \in 1..Len(intents) } :
                intents \in { classify_intent(recent[i].content) : i \in 1..Len(recent) } }

\* ChatbotCore.get_conversation_summary
get_conversation_summary(history) ==
    [message_count |-> Len(history),
     user_messages |-> Cardinality({i \in 1..Len(history) : history[i].role = "user"}),
     assistant_messages |->
         Cardinality({i \in 1..Len(history) : history[i].role = "assistant"}),
     recent_topics |-> _extract_recent_topics(history)]

(***************************************************************************)
(* Search: DocumentationManager                                            *)
(***************************************************************************)
\* the number of sections a documentation search finds
SearchOutcomes == {0, 3}

\* DocumentationManager.search
search(query, found) ==
    IF found > 0
    THEN [source |-> "documentation",
          message |-> <<"Found ">> \o IntStr(found) \o <<" relevant documentation sections">>]
    ELSE [source |-> "documentation_error",
          error |-> Some(<<"No relevant documentation found">>),
          message |-> <<"No documentation matches your query">>]

\* DocumentationManager.get_epic_documentation
get_epic_documentation(found) == search(<<"epic create manage track issues">>, found)

\* DocumentationManager.get_sprint_documentation
get_sprint_documentation(found) ==
    search(<<"sprint create manage track agile scrum">>, found)

(***************************************************************************)
(* Chat endpoint: main.chat                                                *)
(***************************************************************************)
\* ChatResponseModel, without its timestamp
ChatResponseModel(text, confidence, sources, metadata) ==
    [status |-> 200, response |-> text, confidence |-> confidence,
     sources |-> sources, metadata |-> metadata]

\* HTTPException(status_code=500, ...)
HTTPException(exc) ==
    [status |-> 500, detail |-> <<"Error processing chat request: ", exc>>]

\* a direct answer that also carries the tag of the generated answers and the
\* confidence of a query without intents
DirectAnswer_tagged_like_generated(text, tag, intents, mcp) ==
    ChatResponseModel(text, Fraction(1, 2), << <<"external_data">>, <<tag>> >>,
        [intents |-> intents, has_external_context |-> FALSE, mcp_result |-> mcp])

\* the direct answer of chat for a created epic or sprint or a board listing
DirectAnswer(text, tag, intents, mcp) ==
    ChatResponseModel(text, Fraction(1, 1), << <<tag>> >>,
        [intents |-> intents, has_external_context |-> FALSE, mcp_result |-> mcp])

\* the external context of a dispatcher success without the result's message
McpContext_without_message(prefix, mcp) ==
    Some(<<prefix>>
         \o (IF "data" \in DOMAIN mcp /\ DOMAIN mcp.data # {}
             THEN <<" Data: ", "str(data)[:500]", "...">> ELSE <<>>))

\* "MCP ... Data: {message}" with the data, when there is any
McpContext(prefix, mcp) ==
    Some(<<prefix>> \o DictGet(mcp, "message", <<>>)
         \o (IF "data" \in DOMAIN mcp /\ DOMAIN mcp.data # {}
             THEN <<" Data: ", "str(data)[:500]", "...">> ELSE <<>>))

\* "Documentation: {message}" when the search found something, else None
DocContext(doc_result) ==
    IF doc_result.source = "documentation"
    THEN Some(<<"Documentation: ">> \o doc_result.message) ELSE None

\* the external context of a board query the dispatcher failed on
BoardDocumentation ==
    <<"Board documentation: Jira boards help you visualize and manage your work. You can create different types of boards like Scrum boards, Kanban boards, etc.">>

\* the lines of the board listing
BoardsText(boards_data) ==
    Join(<<"\n">>, [i \in 1..Len(boards_data) |->
        <<"** ", boards_data[i].name, "** (ID: ", boards_data[i].id, ", Type: ",
          boards_data[i].type, ", Project: ", boards_data[i].location, ")">>])

\* the if-chain of chat with the sprint branch tried before the epic branch
Entity_sprint_first(message) ==
    Only({ IF \/ Contains(query_lower, Keyword["sprint"])
              \/ Contains(query_lower, Keyword["sprints"])
           THEN "sprint"
           ELSE IF \/ Contains(query_lower, Keyword["epic"])
                   \/ Contains(query_lower, Keyword["epics"])
           THEN "epic"
           ELSE IF \/ Contains(query_lower, Keyword["board"])
                   \/ Contains(query_lower, Keyword["boards"])
           THEN "board"
           ELSE "general" :
           query_lower \in {Lower(message)} })

\* The entity chat reads in a message, by the order of its if-chain
Entity(message) ==
    Only({ IF \/ Contains(query_lower, Keyword["epic"])
              \/ Contains(query_lower, Keyword["epics"])
           THEN "epic"
           ELSE IF \/ Contains(query_lower, Keyword["sprint"])
                   \/ Contains(query_lower, Keyword["sprints"])
           THEN "sprint"
           ELSE IF \/ Contains(query_lower, Keyword["board"])
                   \/ Contains(query_lower, Keyword["boards"])
           THEN "board"
           ELSE "general" :
           query_lower \in {Lower(message)} })

\* The part of chat before process_query: which entity the query is about, the
\* dispatcher's result, the client and search calls made, and either the
\* direct answer or the external context for process_query
Route(message, reply, found) ==
    Only({ Only({
        LET mcp == handled.ret
            type == DictGet(mcp, "type", "None")
            data == DictGet(mcp, "data", EmptyDict)
            message_of(default) == DictGet(mcp, "message", <<default>>)
            base == [entity |-> entity, handled |-> handled, searches |-> <<>>,
                     direct |-> FALSE, external_context |-> None]
        IN  IF handled.raised THEN base
            ELSE IF entity = "general"
            THEN [base EXCEPT !.searches = <<message>>,
                              !.external_context = DocContext(search(message, found))]
            ELSE IF mcp.source # "mcp"
            THEN CASE entity = "epic" ->
                        [base EXCEPT
                           !.searches = << <<"epic create manage track issues">> >>,
                           !.external_context = DocContext(get_epic_documentation(found))]
                   [] entity = "sprint" ->
                        [base EXCEPT
                           !.searches = << <<"sprint create manage track agile scrum">> >>,
                           !.external_context = DocContext(get_sprint_documentation(found))]
                   [] OTHER ->
                        [base EXCEPT !.external_context = Some(BoardDocumentation)]
            ELSE IF entity = "epic" /\ type = "epic_created"
            THEN [base EXCEPT !.direct = TRUE] @@
                 [answer |-> DirectAnswer(
                    <<"OK ">> \o message_of("Epic created successfully") \o <<" (Epic: ">>
                      \o <<DictGet(data, "key", "Unknown")>> \o <<")">>,
                    "mcp_epic_creation",
                    <<[label |-> "epic", score |-> Fraction(1, 1)],
                      [label |-> "create", score |-> Fraction(1, 1)]>>, mcp)]
            ELSE IF entity = "sprint" /\ type = "sprint_created"
            THEN [base EXCEPT !.direct = TRUE] @@
                 [answer |-> DirectAnswer(
                    <<"OK ">> \o message_of("Sprint created successfully")
                      \o <<" (Sprint ID: ">> \o <<DictGet(data, "id", "Unknown")>>
                      \o <<", Board: ">> \o <<DictGet(data, "originBoardId", "Unknown")>>
                      \o <<")">>,
                    "mcp_sprint_creation",
                    <<[label |-> "sprint", score |-> Fraction(1, 1)],
                      [label |-> "create", score |-> Fraction(1, 1)]>>, mcp)]
            ELSE IF entity = "board" /\ type = "boards_list"
            THEN [base EXCEPT !.direct = TRUE] @@
                 [answer |-> DirectAnswer(
                    <<"**Available Boards:**\n\n">> \o BoardsText(data) \o <<"\n\nTotal: ">>
                      \o IntStr(Len(data)) \o <<" boards">>,
                    "mcp_boards_list",
                    <<[label |-> "board", score |-> Fraction(1, 1)],
                      [label |-> "list", score |-> Fraction(1, 1)]>>, mcp)]
            ELSE [base EXCEPT !.external_context =
                    McpContext(CASE entity = "epic" -> "MCP Epic Data: "
                                 [] entity = "sprint" -> "MCP Sprint Data: "
                                 [] OTHER -> "MCP Board Data: ", mcp)] :
        handled \in {CASE entity = "epic" -> handle_epic_query(message, reply)
                       [] entity = "sprint" -> handle_sprint_query(message, reply)
                       [] entity = "board" -> handle_board_query(message, reply)
                       [] OTHER -> Returns(EmptyDict, <<>>)} }) :
        entity \in {Entity(message)} })

\* main.chat: the HTTP response, the new conversation_history and every call
\* made on the way
chat(history, message, reply, found, loaded, outcome) ==
    Only({ LET common == [entity |-> route.entity, handled |-> route.handled,
                          searches |-> route.searches]
           IN  IF route.handled.raised
               THEN common @@ [http |-> HTTPException(route.handled.exc),
                               history |-> history, appends |-> <<>>, generated |-> <<>>]
               ELSE IF route.direct
               THEN common @@ [http |-> route.answer, history |-> history,
                               appends |-> <<>>, generated |-> <<>>]
               ELSE Only({ common @@
                           [http |-> ChatResponseModel(processed.response.message,
                                                       processed.response.confidence,
                                                       processed.response.sources,
                                                       processed.response.metadata),
                            history |-> processed.history, appends |-> processed.appends,
                            generated |-> processed.generated] :
                           processed \in {process_query(history, message,
                                                        route.external_context,
                                                        loaded, outcome)} }) :
           route \in {Route(message, reply, found)} })

(***************************************************************************)
(* The server as a state machine                                           *)
(***************************************************************************)
\* The number of chat and process_query requests served
MaxRequests == 1

\* The queries sent to the chat endpoint
ChatQueries ==
    { Query["Create epic in DEMO with title Test Epic"],
      Query["Create epic in DEMO with title My project Epic"], Query["Create epic"],
      Query["create epic"], Query["Show epics"], Query["epic EPIC-123"],
      Query["Update epic EPIC-123"],
      Query["Create sprint in board 123 named Sprint 1"],
      Query["Show me all sprints"], Query["sprint 42"], Query["sprint 0"],
      Query["list sprints for epic"],
      Query["Show boards"], Query["board 7"], Query["Hello!"],
      Query["What is new?"], Query[""] }

\* The queries handed to process_query when it is called directly: one for
\* each canned message, and the empty one
DirectQueries ==
    { Query["Create epic"], Query["Create sprint"], Query["What is new?"],
      Query["How do I"], Query["Hello!"], Query[""] }

\* What the pipeline can do with a prompt in the current store; without a
\* loaded pipeline nothing is generated and the outcome is immaterial
PipelineOutcomes ==
    IF pipeline THEN GeneratorOutcomes ELSE {o \in GeneratorOutcomes : o.raises}

\* The external contexts handed to process_query when it is called directly
ExternalContexts == {None, Some(<<>>), Some(<<"Documentation: ", "notes">>)}

NoRequest == [op |-> "none"]

NoResponse == [status |-> 0]

\* ChatRequest.user_id of the sessions that talk to the server
UserIds == {"alice", "bob"}

\* For each session, the turns its own requests appended since its last reset
NoSessions == [user_id \in UserIds |-> <<>>]

\* The requests that are inside add_message, none at first
NoWriters == <<>>

Init ==
    /\ conversation_history = <<>>
    /\ appended = <<>>
    /\ pipeline \in BOOLEAN
    /\ request = NoRequest
    /\ dispatch_result = Returns(EmptyDict, <<>>)
    /\ transport_calls = <<>>
    /\ generator_calls = <<>>
    /\ search_calls = <<>>
    /\ chat_response = NoResponse
    /\ steps = 0
    /\ session_log = NoSessions
    /\ writers = NoWriters
    /\ ollama_history = <<>>

\* the client calls of a handler, each with the reply the transport gave
WithReply(calls, reply) ==
    [i \in 1..Len(calls) |-> [op |-> calls[i].op, args |-> calls[i].args, reply |-> reply]]

\* POST /chat
Chat(message, reply, found, outcome) ==
    /\ steps < MaxRequests
    /\ \E done \in {chat(conversation_history, message, reply, found, pipeline, outcome)} :
        /\ request' = [op |-> "chat", message |-> message, entity |-> done.entity,
                       appends |-> done.appends]
        /\ dispatch_result' = done.handled
        /\ transport_calls' = WithReply(done.handled.calls, reply)
        /\ search_calls' = [i \in 1..Len(done.searches) |->
                              [query |-> done.searches[i], found |-> found]]
        /\ generator_calls' = done.generated
        /\ chat_response' = done.http
        /\ conversation_history' = done.history
        /\ appended' = appended \o done.appends
        /\ steps' = steps + 1
        /\ UNCHANGED <<pipeline, session_log, writers,
                   ollama_history>>

\* chatbot.process_query called on its own
ProcessQuery(user_input, external_context, outcome) ==
    /\ steps < MaxRequests
    /\ \E done \in {process_query(conversation_history, user_input, external_context,
                                  pipeline, outcome)} :
        /\ request' = [op |-> "process_query", message |-> user_input,
                       external_context |-> external_context, appends |-> done.appends]
        /\ dispatch_result' = Returns(EmptyDict, <<>>)
        /\ transport_calls' = <<>>
        /\ search_calls' = <<>>
        /\ generator_calls' = done.generated
        /\ chat_response' = [status |-> 200, response |-> done.response.message,
                             confidence |-> done.response.confidence,
                             sources |-> done.response.sources,
                             metadata |-> done.response.metadata]
        /\ conversation_history' = done.history
        /\ appended' = appended \o done.appends
        /\ steps' = steps + 1
        /\ UNCHANGED <<pipeline, session_log, writers,
                   ollama_history>>

\* POST /conversation/reset
ResetConversation ==
    /\ request' = [op |-> "reset_conversation", cleared |-> Len(conversation_history)]
    /\ conversation_history' = reset_conversation(conversation_history)
    /\ appended' = <<>>
    /\ dispatch_result' = Returns(EmptyDict, <<>>)
    /\ transport_calls' = <<>>
    /\ search_calls' = <<>>
    /\ generator_calls' = <<>>
    /\ chat_response' = [status |-> 200, message |-> <<"Conversation reset successfully">>]
    /\ UNCHANGED <<pipeline, steps, session_log, writers,
                   ollama_history>>

\* GET /conversation/summary
ConversationSummary ==
    /\ request' = [op |-> "get_conversation_summary"]
    /\ dispatch_result' = Returns(EmptyDict, <<>>)
    /\ transport_calls' = <<>>
    /\ search_calls' = <<>>
    /\ generator_calls' = <<>>
    /\ chat_response' = [status |-> 200,
                         summary |-> get_conversation_summary(conversation_history),
                         context |-> get_conversation_context(conversation_history)]
    /\ UNCHANGED <<conversation_history, appended, pipeline, steps, session_log,
                   writers,
                   ollama_history>>

Next ==
    \/ \E message \in ChatQueries, reply \in HttpReplies, found \in SearchOutcomes,
          outcome \in PipelineOutcomes : Chat(message, reply, found, outcome)
    \/ \E user_input \in DirectQueries,
          external_context \in ExternalContexts, outcome \in PipelineOutcomes :
          ProcessQuery(user_input, external_context, outcome)
    \/ ResetConversation
    \/ ConversationSummary

Spec == Init /\ [][Next]_vars

(***************************************************************************)
(* The conversation store on its own: any sequence of add_message and      *)
(* reset_conversation calls                                                *)
(***************************************************************************)
\* The number of turns appended between two resets
MaxAppends == 11

\* The turns handed to add_message
LogTurns ==
    { ChatMessage("user", Query["Hello!"], None),
      ChatMessage("assistant", FallbackDefault,
                  Some([intents |-> <<>>, has_external_context |-> FALSE])) }

\* chatbot.add_message
AddMessage(role, content, metadata) ==
    /\ Len(appended) < MaxAppends
    /\ request' = [op |-> "add_message"]
    /\ conversation_history' = add_message(conversation_history, role, content, metadata)
    /\ appended' = Append(appended, ChatMessage(role, content, metadata))
    /\ UNCHANGED <<pipeline, dispatch_result, transport_calls, generator_calls,
                   search_calls, chat_response, steps, session_log, writers,
                   ollama_history>>

NextLog ==
    \/ \E turn \in LogTurns : AddMessage(turn.role, turn.content, turn.metadata)
    \/ ResetConversation

SpecLog == Init /\ [][NextLog]_vars

(***************************************************************************)
(* The dispatcher on its own: one query handed to a handle_*_query method  *)
(***************************************************************************)
InitDispatch ==
    /\ conversation_history = <<>>
    /\ appended = <<>>
    /\ pipeline = FALSE
    /\ request \in {[op |-> "query", message |-> query] : query \in Queries}
    /\ dispatch_result = Returns(EmptyDict, <<>>)
    /\ transport_calls = <<>>
    /\ generator_calls = <<>>
    /\ search_calls = <<>>
    /\ chat_response = NoResponse
    /\ steps = 0
    /\ session_log = NoSessions
    /\ writers = NoWriters
    /\ ollama_history = <<>>

Dispatched(op, handled, reply) ==
    /\ request' = [op |-> op, message |-> request.message]
    /\ dispatch_result' = handled
    /\ transport_calls' = WithReply(handled.calls, reply)
    /\ UNCHANGED <<conversation_history, appended, pipeline, generator_calls,
                   search_calls, chat_response, steps, session_log, writers,
                   ollama_history>>

\* mcp_manager.handle_epic_query
HandleEpicQuery(reply) ==
    /\ request.op = "query"
    /\ \E handled \in {handle_epic_query(request.message, reply)} :
          Dispatched("handle_epic_query", handled, reply)

\* mcp_manager.handle_sprint_query
HandleSprintQuery(reply) ==
    /\ request.op = "query"
    /\ \E handled \in {handle_sprint_query(request.message, reply)} :
          Dispatched("handle_sprint_query", handled, reply)

\* mcp_manager.handle_board_query
HandleBoardQuery(reply) ==
    /\ request.op = "query"
    /\ \E handled \in {handle_board_query(request.message, reply)} :
          Dispatched("handle_board_query", handled, reply)

NextDispatch ==
    \/ \E reply \in DispatchReplies : HandleEpicQuery(reply)
    \/ \E reply \in DispatchReplies : HandleSprintQuery(reply)
    \/ \E reply \in DispatchReplies : HandleBoardQuery(reply)

SpecDispatch == InitDispatch /\ [][NextDispatch]_vars

(***************************************************************************)
(* The router on its own store: any sequence of process_query and          *)
(* reset_conversation calls, long enough for the log to overflow           *)
(***************************************************************************)
\* The number of process_query calls
MaxQueries == 6

\* The inputs of the calls: a query and the external context it comes with
QueryInputs ==
    { <<Query["Hello!"], None>>,
      <<Query["Hello!"], Some(<<>>)>>,
      <<Query["What is new?"], Some(<<"Documentation: ", "notes">>)>> }

InitQueries ==
    /\ Init
    /\ pipeline = FALSE

\* chatbot.process_query, one call after the other
NextQuery(user_input, external_context, outcome) ==
    /\ steps < MaxQueries
    /\ \E done \in {process_query(conversation_history, user_input, external_context,
                                  pipeline, outcome)} :
        /\ request' = [op |-> "process_query", message |-> user_input,
                       external_context |-> external_context, appends |-> done.appends]
        /\ generator_calls' = done.generated
        /\ chat_response' = [status |-> 200, response |-> done.response.message,
                             confidence |-> done.response.confidence,
                             sources |-> done.response.sources,
                             metadata |-> done.response.metadata]
        /\ conversation_history' = done.history
        /\ appended' = appended \o done.appends
        /\ steps' = steps + 1
        /\ UNCHANGED <<pipeline, dispatch_result, transport_calls, search_calls,
                       session_log, writers,
                   ollama_history>>

NextQueries ==
    \/ \E input \in QueryInputs, outcome \in PipelineOutcomes :
          NextQuery(input[1], input[2], outcome)
    \/ ResetConversation

SpecQueries == InitQueries /\ [][NextQueries]_vars

(***************************************************************************)
(* Sessions: requests of several user_id served by the one global chatbot  *)
(***************************************************************************)
\* The number of requests the sessions send
MaxSessionRequests == 3

\* The messages of the sessions; none of them names an epic, sprint or board
SessionQueries == { Query["Hello!"], Query["What is new?"] }

InitSessions ==
    /\ Init
    /\ pipeline = FALSE

\* POST /chat with a user_id: the field is accepted and not read
SessionChat(user_id, message, reply, found, outcome) ==
    /\ steps < MaxSessionRequests
    /\ \E done \in {chat(conversation_history, message, reply, found, pipeline, outcome)} :
        /\ request' = [op |-> "chat", user_id |-> user_id, message |-> message,
                       entity |-> done.entity, appends |-> done.appends]
        /\ dispatch_result' = done.handled
        /\ transport_calls' = WithReply(done.handled.calls, reply)
        /\ search_calls' = [i \in 1..Len(done.searches) |->
                              [query |-> done.searches[i], found |-> found]]
        /\ generator_calls' = done.generated
        /\ chat_response' = done.http
        /\ conversation_history' = done.history
        /\ appended' = appended \o done.appends
        /\ session_log' = [session_log EXCEPT ![user_id] = @ \o done.appends]
        /\ steps' = steps + 1
        /\ UNCHANGED <<pipeline, writers,
                   ollama_history>>

\* POST /conversation/reset sent by a session: the endpoint takes no user_id
SessionReset(user_id) ==
    /\ request' = [op |-> "reset_conversation", user_id |-> user_id,
                   cleared |-> Len(conversation_history)]
    /\ conversation_history' = reset_conversation(conversation_history)
    /\ appended' = <<>>
    /\ session_log' = [session_log EXCEPT ![user_id] = <<>>]
    /\ dispatch_result' = Returns(EmptyDict, <<>>)
    /\ transport_calls' = <<>>
    /\ search_calls' = <<>>
    /\ generator_calls' = <<>>
    /\ chat_response' = [status |-> 200, message |-> <<"Conversation reset successfully">>]
    /\ UNCHANGED <<pipeline, steps, writers,
                   ollama_history>>

\* GET /conversation/summary sent by a session: the endpoint takes no user_id
SessionSummary(user_id) ==
    /\ request' = [op |-> "get_conversation_summary", user_id |-> user_id]
    /\ dispatch_result' = Returns(EmptyDict, <<>>)
    /\ transport_calls' = <<>>
    /\ search_calls' = <<>>
    /\ generator_calls' = <<>>
    /\ chat_response' = [status |-> 200,
                         summary |-> get_conversation_summary(conversation_history),
                         context |-> get_conversation_context(conversation_history)]
    /\ UNCHANGED <<conversation_history, appended, pipeline, steps, session_log,
                   writers,
                   ollama_history>>

NextSessions ==
    \/ \E user_id \in UserIds, message \in SessionQueries, reply \in HttpReplies,
          found \in SearchOutcomes, outcome \in PipelineOutcomes :
          SessionChat(user_id, message, reply, found, outcome)
    \/ \E user_id \in UserIds : SessionReset(user_id)
    \/ \E user_id \in UserIds : SessionSummary(user_id)

SpecSessions == InitSessions /\ [][NextSessions]_vars

(***************************************************************************)
(* Concurrent requests: several add_message calls on the one store, each   *)
(* taken statement by statement.  chat is a coroutine without an await, so *)
(* the event loop runs the calls one after the other; the schedules below  *)
(* include those and every interleaving of whole statements as well        *)
(***************************************************************************)
\* The number of add_message calls in flight
MaxWriters == 3

\* The lengths of the log when the first of the calls arrives
StartLengths == {0, 9, 10}

\* The messages of the concurrent requests, one for each in turn
WriterQueries == <<Query["Hello!"], Query["What is new?"], Query["Show new epics"]>>

\* The user turn of the w-th concurrent request
WriterTurn(w) ==
    ChatMessage("user", WriterQueries[((w - 1) % Len(WriterQueries)) + 1], None)

\* A log of n turns left by earlier requests, user and assistant in turn
EarlierLog(n) ==
    [i \in 1..n |-> IF i % 2 = 1 THEN ChatMessage("user", Query["Show epics"], None)
                    ELSE ChatMessage("assistant", FallbackEpic, None)]

\* self.conversation_history[-self.max_history:], the slice of the truncation
\* with the oldest turns kept instead of the newest
recent_history_from_front(history) == SubSeq(history, 1, max_history)

\* self.conversation_history[-self.max_history:]
recent_history(history) == LastN(history, max_history)

InitConcurrent ==
    /\ conversation_history \in {EarlierLog(n) : n \in StartLengths}
    /\ appended = conversation_history
    /\ pipeline = FALSE
    /\ request = [op |-> "add_message", history |-> conversation_history]
    /\ dispatch_result = Returns(EmptyDict, <<>>)
    /\ transport_calls = <<>>
    /\ generator_calls = <<>>
    /\ search_calls = <<>>
    /\ chat_response = NoResponse
    /\ steps = 0
    /\ session_log = NoSessions
    /\ writers = NoWriters
    /\ ollama_history = <<>>

\* what a writer leaves alone
WriterFrame ==
    UNCHANGED <<pipeline, request, dispatch_result, transport_calls, generator_calls,
                search_calls, chat_response, steps, session_log, ollama_history>>

\* a request reaches add_message and builds its ChatMessage
EnterAddMessage ==
    /\ Len(writers) < MaxWriters
    /\ writers' = Append(writers, [pc |-> "append", length |-> 0,
                                   message |-> WriterTurn(Len(writers) + 1)])
    /\ UNCHANGED <<conversation_history, appended>>
    /\ WriterFrame

\* self.conversation_history.append(message)
AppendStep(w) ==
    /\ writers[w].pc = "append"
    /\ conversation_history' = Append(conversation_history, writers[w].message)
    /\ appended' = Append(appended, writers[w].message)
    /\ writers' = [writers EXCEPT ![w].pc = "check"]
    /\ WriterFrame

\* if len(self.conversation_history) > self.max_history
CheckStep(w) ==
    /\ writers[w].pc = "check"
    /\ writers' = [writers EXCEPT
                     ![w].length = Len(conversation_history),
                     ![w].pc = IF Len(conversation_history) > max_history
                               THEN "truncate" ELSE "done"]
    /\ UNCHANGED <<conversation_history, appended>>
    /\ WriterFrame

\* self.conversation_history = self.conversation_history[-self.max_history:]
TruncateStep(w) ==
    /\ writers[w].pc = "truncate"
    /\ conversation_history' = recent_history(conversation_history)
    /\ writers' = [writers EXCEPT ![w].pc = "done"]
    /\ UNCHANGED appended
    /\ WriterFrame

NextConcurrent ==
    \/ EnterAddMessage
    \/ \E w \in 1..Len(writers) : AppendStep(w)
    \/ \E w \in 1..Len(writers) : CheckStep(w)
    \/ \E w \in 1..Len(writers) : TruncateStep(w)

SpecConcurrent == InitConcurrent /\ [][NextConcurrent]_vars

(***************************************************************************)
(* OllamaClient: the generator of the Ollama build and its own history     *)
(***************************************************************************)
\* OllamaClient.max_history
ollama_max_history == 10

\* The number of generate_response calls
MaxOllamaRequests == 11

\* OllamaMessage
OllamaMessage(role, content) == [role |-> role, content |-> content]

\* What _make_request returns for /api/generate: a JSON object with the key
\* "response", a JSON object without it, or {"error": ...} after a failed request
OllamaReplies ==
    { [error |-> FALSE, response |-> Some(<<"generated answer">>)],
      [error |-> FALSE, response |-> None],
      [error |-> TRUE, response |-> None] }

\* OllamaClient.generate_response: the new conversation_history and whether
\* the canned fallback message was returned
ollama_generate_response(history, prompt, reply) ==
    LET asked == Append(history, OllamaMessage("user", prompt))
    IN  IF reply.error \/ ~reply.response.some
        THEN [history |-> asked, fallback |-> TRUE]
        ELSE LET answered == Append(asked, OllamaMessage("assistant", reply.response.val))
             IN  [history |-> IF Len(answered) > ollama_max_history
                              THEN LastN(answered, ollama_max_history) ELSE answered,
                  fallback |-> FALSE]

InitOllama ==
    /\ Init
    /\ pipeline = FALSE

\* ollama_client.generate_response(prompt, context)
OllamaGenerateResponse(prompt, reply) ==
    /\ steps < MaxOllamaRequests
    /\ \E done \in {ollama_generate_response(ollama_history, prompt, reply)} :
        /\ request' = [op |-> "generate_response", message |-> prompt, reply |-> reply,
                       fallback |-> done.fallback]
        /\ ollama_history' = done.history
    /\ steps' = steps + 1
    /\ UNCHANGED <<conversation_history, appended, pipeline, dispatch_result,
                   transport_calls, generator_calls, search_calls, chat_response,
                   session_log, writers>>

NextOllama ==
    \E reply \in OllamaReplies : OllamaGenerateResponse(Query["Hello!"], reply)

SpecOllama == InitOllama /\ [][NextOllama]_vars

(***************************************************************************)
(* Properties                                                              *)
(***************************************************************************)
\* C1: after any sequence of add_message calls the conversation log holds at
\* most 10 turns, and it is exactly the last 10 appended turns (all of them
\* while there are fewer) in their append order, each turn unchanged
C1_LogIsLastTenAppended ==
    LET kept == Len(conversation_history)
        dropped == Len(appended) - kept
    IN  /\ max_history = 10
        /\ kept <= max_history
        /\ kept = IF Len(appended) <= max_history THEN Len(appended) ELSE max_history
        /\ \A i \in 1..kept : conversation_history[i] = appended[dropped + i]

\* an eleventh turn was appended and the first one, which differs from the
\* second, was evicted
C1_EleventhAppendEvictsOldest ==
    /\ request.op = "add_message"
    /\ Len(appended) = max_history + 1
    /\ Len(conversation_history) = max_history
    /\ appended[1] # appended[2]
    /\ conversation_history[1] = appended[2]
    /\ conversation_history[max_history] = appended[max_history + 1]

\* C2: reset_conversation leaves the empty log from every store state; the
\* summary of the store then counts 0 messages, 0 user and 0 assistant
\* messages and no recent topic, the conversation context is the empty string
\* and the store is in the state of a freshly constructed one
C2_ResetYieldsEmptyStore ==
    request.op = "reset_conversation" =>
        /\ conversation_history = <<>>
        /\ get_conversation_summary(conversation_history) =
              [message_count |-> 0, user_messages |-> 0, assistant_messages |-> 0,
               recent_topics |-> {}]
        /\ get_conversation_context(conversation_history) = <<>>

\* a full log was reset
C2_FullLogWasReset ==
    /\ request.op = "reset_conversation"
    /\ request.cleared = max_history
    /\ conversation_history = <<>>

\* C3: every query the chat endpoint answers appends to the conversation log
\* the user turn with the query text and then the assistant turn with the
\* message and the metadata of the returned envelope, on the direct-answer
\* paths too
C3_ChatAppendsUserAndAssistantTurn ==
    request.op = "chat" /\ chat_response.status = 200 =>
        request.appends =
            <<ChatMessage("user", request.message, None),
              ChatMessage("assistant", chat_response.response,
                          Some(chat_response.metadata))>>

\* the dispatcher returned a success of one of the given action types to chat
C4_Success(types) ==
    /\ request.op = "chat"
    /\ request.entity # "general"
    /\ ~dispatch_result.raised
    /\ dispatch_result.ret.source = "mcp"
    /\ dispatch_result.ret.type \in types

\* the envelope of a direct answer: confidence 1.0 and one source tag
C4_DirectEnvelope ==
    /\ chat_response.status = 200
    /\ SameFraction(chat_response.confidence, Fraction(1, 1))
    /\ Len(chat_response.sources) = 1
    /\ chat_response.sources[1] \in
          { <<"mcp_epic_creation">>, <<"mcp_sprint_creation">>, <<"mcp_boards_list">> }

\* C4 as stated: a success of type epic_created, sprint_created, epic_list,
\* sprint_list or boards_list is answered with confidence 1.0 and exactly one
\* specific source tag, without a call of the generator
C4_TerminalSuccessAnswersDirectly ==
    C4_Success({"epic_created", "sprint_created", "epic_list", "sprint_list",
                "boards_list"}) =>
        C4_DirectEnvelope /\ generator_calls = <<>>

\* C4: a success of type epic_created, sprint_created or boards_list is
\* answered with confidence 1.0 and exactly one specific source tag, without a
\* call of the generator; a success of type epic_list or sprint_list goes to
\* the generator once, with the tag external_data first among its source tags
C4_CreatedAndBoardsListAnswerDirectly ==
    /\ C4_Success({"epic_created", "sprint_created", "boards_list"}) =>
          C4_DirectEnvelope /\ generator_calls = <<>>
    /\ C4_Success({"epic_list", "sprint_list"}) =>
          /\ Len(generator_calls) = 1
          /\ chat_response.status = 200
          /\ Len(chat_response.sources) > 1
          /\ chat_response.sources[1] = <<"external_data">>

\* a created epic was answered directly
C4_CreatedEpicAnsweredDirectly ==
    /\ C4_Success({"epic_created"})
    /\ Len(transport_calls) = 1
    /\ C4_DirectEnvelope
    /\ generator_calls = <<>>

\* the dispatcher returned to chat a failure, or a success whose type is none
\* of the given ones
C5_FallsThrough(direct) ==
    /\ request.op = "chat"
    /\ request.entity # "general"
    /\ ~dispatch_result.raised
    /\ \/ dispatch_result.ret.source = "mcp_error"
       \/ dispatch_result.ret.source = "mcp" /\ dispatch_result.ret.type \notin direct

\* the message of the dispatcher's result is part of the external context
\* handed to process_query and of the context handed to the generator
C5_MessageInContext ==
    /\ Len(generator_calls) = 1
    /\ generator_calls[1].external_context.some
    /\ Contains(generator_calls[1].external_context.val, dispatch_result.ret.message)
    /\ Contains(generator_calls[1].context, dispatch_result.ret.message)

\* C5 as stated: the message of a failure and of a success that is not
\* terminal is part of the external context handed to process_query and of
\* the context handed to the generator
C5_ResultMessageFoldedIntoContext ==
    C5_FallsThrough({"epic_created", "sprint_created", "epic_list", "sprint_list",
                     "boards_list"}) => C5_MessageInContext

\* C5: the message of a success that is not answered directly is part of the
\* external context handed to process_query and of the context handed to the
\* generator; after a failure the generator is called once with the
\* documentation fallback as external context (the search summary, nothing
\* when the search found nothing, the fixed board text for a board query), and
\* the failure's message is in neither context
C5_SuccessMessageFoldedIntoContext ==
    C5_FallsThrough({"epic_created", "sprint_created", "boards_list"}) =>
        IF dispatch_result.ret.source = "mcp"
        THEN C5_MessageInContext
        ELSE /\ Len(generator_calls) = 1
             /\ LET external_context == generator_calls[1].external_context
                IN  IF external_context.some
                    THEN /\ \/ external_context.val[1] = "Documentation: "
                            \/ external_context.val = BoardDocumentation
                         /\ ~Contains(external_context.val, dispatch_result.ret.message)
                    ELSE request.entity # "board" /\ search_calls[1].found = 0
             /\ ~Contains(generator_calls[1].context, dispatch_result.ret.message)

\* the details of an epic were fetched and their message reached the generator
C5_EpicDetailReachedGenerator ==
    /\ C5_FallsThrough({"epic_created", "sprint_created", "boards_list"})
    /\ dispatch_result.ret.source = "mcp"
    /\ dispatch_result.ret.type = "epic_detail"
    /\ C5_MessageInContext

\* C6: a create-epic or create-sprint query from which a required field
\* (project key, summary; sprint name, board id) is not extracted gets a
\* failure result of source mcp_error without a transport call, and the
\* create call is made only when both fields are present and non-empty
C6_MissingFieldIsFailureWithoutCall ==
    /\ request.op = "handle_epic_query" /\ Verb(request.message) = "create" =>
          LET fields == EpicFields(request.message)
              missing == ~Truthy(fields.project_key) \/ ~Truthy(fields.summary)
          IN  /\ missing => /\ transport_calls = <<>>
                            /\ ~dispatch_result.raised
                            /\ dispatch_result.ret.source = "mcp_error"
              /\ transport_calls # <<>> => ~missing
    /\ request.op = "handle_sprint_query" /\ Verb(request.message) = "create" =>
          LET fields == SprintFields(request.message)
              missing == ~Truthy(fields.sprint_name) \/ ~TruthyInt(fields.board_id)
          IN  /\ missing => /\ transport_calls = <<>>
                            /\ ~dispatch_result.raised
                            /\ dispatch_result.ret.source = "mcp_error"
              /\ transport_calls # <<>> => ~missing

\* C7: handle_epic_query, handle_sprint_query and handle_board_query return a
\* result for every query and every transport outcome; none of them raises
C7_HandlersNeverRaise ==
    request.op \in {"handle_epic_query", "handle_sprint_query", "handle_board_query"} =>
        ~dispatch_result.raised

\* C8: for "Create epic" the dispatcher returns a failure whose message names
\* the project key, no transport call is made, and the chat endpoint answers
\* with generated or canned text under the source tags intent_epic and
\* intent_create
C8_CreateEpicFallsThrough ==
    request.op = "chat" /\ request.message = Query["Create epic"] =>
        /\ ~dispatch_result.raised
        /\ dispatch_result.ret.source = "mcp_error"
        /\ dispatch_result.ret.message =
              <<"To create an epic, please specify a project key. Example: 'Create epic in PROJECT-123 with title My Epic'">>
        /\ transport_calls = <<>>
        /\ chat_response.status = 200
        /\ Len(generator_calls) = 1
        /\ \E i \in 1..Len(chat_response.sources) :
              chat_response.sources[i] = <<"intent_", "epic">>
        /\ \E i \in 1..Len(chat_response.sources) :
              chat_response.sources[i] = <<"intent_", "create">>

\* the canned message for a lower-cased prompt, by the priority epic, sprint,
\* create/add/new, question word, default
C9_Canned(prompt_lower) ==
    CASE Contains(prompt_lower, Keyword["epic"]) -> FallbackEpic
      [] Contains(prompt_lower, Keyword["sprint"]) -> FallbackSprint
      [] \E k \in {"create", "add", "new"} : Contains(prompt_lower, Keyword[k]) ->
           FallbackCreate
      [] \E k \in {"how", "what", "where", "when", "why"} :
           Contains(prompt_lower, Keyword[k]) -> FallbackQuestion
      [] OTHER -> FallbackDefault

\* C9: process_query always returns an envelope with a non-empty message;
\* when the model is not loaded, the generation raises or the generated text
\* is empty, the message is the canned one chosen by the priority epic >
\* sprint > create/add/new > question word > default, and the request is
\* answered, not aborted
C9_ProcessQueryAlwaysAnswers ==
    generator_calls # <<>> =>
        LET call == generator_calls[1]
            degraded == ~pipeline \/ call.raised \/ Strip(call.outcome) = <<>>
        IN  /\ chat_response.status = 200
            /\ chat_response.response # <<>>
            /\ \E i \in 1..Len(chat_response.response) :
                  chat_response.response[i] \notin Whitespace
            /\ degraded => chat_response.response = C9_Canned(Lower(request.message))

\* the generation raised for "Create epic" and the epic message, not the
\* create message, was returned
C9_RaisingGeneratorDegradesToEpicMessage ==
    /\ request.op = "process_query"
    /\ request.message = Query["Create epic"]
    /\ pipeline
    /\ generator_calls # <<>>
    /\ generator_calls[1].raised
    /\ chat_response.response = FallbackEpic

\* the reply the transport gave failed
C10_Failed(reply) == reply.raises \/ reply.status \notin {200, 201, 202, 204}

\* what C10 states for one get handler: without an identifier a failure and
\* no transport call, with one exactly one fetch, whose failure is returned
\* as a failure carrying the transport's error
C10_Get(op, fetch, has_identifier) ==
    request.op = op /\ Verb(request.message) = "get" =>
        /\ ~dispatch_result.raised
        /\ IF has_identifier
           THEN /\ Len(transport_calls) = 1
                /\ transport_calls[1].op = fetch
                /\ C10_Failed(transport_calls[1].reply) =>
                      /\ dispatch_result.ret.source = "mcp_error"
                      /\ dispatch_result.ret.error.some
                      /\ dispatch_result.ret.error =
                            _make_request(fetch, transport_calls[1].reply).error
           ELSE /\ transport_calls = <<>>
                /\ dispatch_result.ret.source = "mcp_error"

\* C10: a get query without an identifier (an epic key token, a pure-digit
\* sprint id token, an integer after "board") gets a failure without a
\* transport call; one with an identifier (for a sprint any pure-digit token,
\* "0" too) makes exactly one transport fetch, whose failure is returned as a
\* failure result carrying the transport's error detail
C10_GetFetchesOnceWhenIdentified ==
    LET words == Split(request.message)
    IN  /\ C10_Get("handle_epic_query", "get_epic",
                   \E j \in 1..Len(words) :
                      \/ StartsWith(Upper(words[j]), Keyword["EPIC-"])
                      \/ StartsWith(Upper(words[j]), Keyword["PROJ-"]))
        /\ C10_Get("handle_sprint_query", "get_sprint",
                   \E j \in 1..Len(words) : IsDigit(words[j]))
        /\ C10_Get("handle_board_query", "get_board",
                   \E j \in 1..Len(words) :
                      /\ Lower(words[j]) = Keyword["board"]
                      /\ j + 1 <= Len(words)
                      /\ IntParses(words[j + 1]))

\* C11: every query routed to an update handler (epic or sprint) gets a
\* failure result whatever its content, and no transport call is made for it
C11_UpdateIsRefusedWithoutCall ==
    /\ request.op \in {"handle_epic_query", "handle_sprint_query"}
    /\ Verb(request.message) = "update"
    => /\ ~dispatch_result.raised
       /\ dispatch_result.ret.source = "mcp_error"
       /\ "type" \notin DOMAIN dispatch_result.ret
       /\ transport_calls = <<>>

\* an update query that names an epic was refused by the epic dispatcher
C11_UpdateOfNamedEpicRefused ==
    /\ request.op = "handle_epic_query"
    /\ request.message = Query["Update epic EPIC-123"]
    /\ EpicKey(request.message).some
    /\ dispatch_result.ret.source = "mcp_error"
    /\ transport_calls = <<>>

\* the noun of the listing each dispatcher returns
C12_Noun ==
    "handle_epic_query" :> " epics" @@ "handle_sprint_query" :> " sprints"
    @@ "handle_board_query" :> " boards"

\* C12: whenever the transport call of a list handler (epics, sprints, boards)
\* succeeds, the handler returns a success whose payload is the returned
\* collection, also when the collection is empty or the successful response
\* carries no items, and the message is "Found <n> <noun>" ("Found 0 sprints"
\* for an empty sprint listing)
C12_SuccessfulListIsSuccess ==
    /\ request.op \in DOMAIN C12_Noun
    /\ Verb(request.message) = "list"
    /\ Len(transport_calls) = 1
    /\ ~transport_calls[1].reply.raises
    /\ transport_calls[1].reply.status \in {200, 201, 202, 204}
    /\ transport_calls[1].reply.body # "garbled"
    => LET items == IF transport_calls[1].reply.body = "full" THEN 1 ELSE 0
       IN  /\ ~dispatch_result.raised
           /\ dispatch_result.ret.source = "mcp"
           /\ Len(dispatch_result.ret.data) = items
           /\ dispatch_result.ret.message =
                 <<"Found ">> \o IntStr(items) \o <<C12_Noun[request.op]>>

\* the handler that produced the dispatcher's result, read off the client call
\* it made or, without one, off the exception or the error it reports
C13_HandlerThatRan ==
    IF transport_calls # <<>>
    THEN CASE transport_calls[1].op \in {"get_epics", "get_sprints", "get_boards"} -> "list"
           [] transport_calls[1].op \in {"create_epic", "create_sprint"} -> "create"
           [] OTHER -> "get"
    ELSE IF dispatch_result.raised THEN "create"
    ELSE CASE dispatch_result.ret.error.val \in
                 { <<"Epic update requires additional parameters">>,
                   <<"Sprint update requires additional parameters">> } -> "update"
           [] dispatch_result.ret.error.val \in
                 { <<"No epic key found in query">>,
                   <<"No sprint ID found in query">> } -> "get"
           [] request.op = "handle_board_query" -> "get"
           [] OTHER -> "create"

\* the verb of a query by the stated priority: list/show/get all, else
\* create/add/new, else update/modify/change, else get
C13_VerbByPriority(query_lower) ==
    CASE \E k \in {"list", "show", "get all"} : Contains(query_lower, Keyword[k]) -> "list"
      [] \E k \in {"create", "add", "new"} : Contains(query_lower, Keyword[k]) -> "create"
      [] \E k \in {"update", "modify", "change"} : Contains(query_lower, Keyword[k]) ->
           "update"
      [] OTHER -> "get"

\* C13: a dispatched query is handled by exactly one handler, chosen by the
\* verb priority list/show/get all, else create/add/new, else
\* update/modify/change, else get, on the lower-cased query; the board
\* dispatcher knows list and else get
C13_RoutedByVerbPriority ==
    LET verb == C13_VerbByPriority(Lower(request.message))
    IN  /\ request.op \in {"handle_epic_query", "handle_sprint_query"} =>
              /\ C13_HandlerThatRan = verb
              /\ Len(transport_calls) <= 1
        /\ request.op = "handle_board_query" =>
              /\ C13_HandlerThatRan = (IF verb = "list" THEN "list" ELSE "get")
              /\ Len(transport_calls) <= 1

\* a query with a list keyword and a create keyword went to the list handler
C13_ListWonOverCreate ==
    /\ request.op = "handle_epic_query"
    /\ request.message = Query["Show new epics"]
    /\ Contains(Lower(request.message), Keyword["new"])
    /\ Contains(Lower(request.message), Keyword["show"])
    /\ Len(transport_calls) = 1
    /\ transport_calls[1].op = "get_epics"

\* the number of keywords of the i-th label that occur in a lower-cased query
C14_Matched(i, query_lower) ==
    Cardinality({k \in 1..Len(intent_keywords[i][2]) :
                   Contains(query_lower, intent_keywords[i][2][k])})

\* C14: classify_intent returns exactly the labels of which at least one
\* keyword occurs in the query as a case-insensitive substring, each once and
\* with the score matched keywords / keywords of the label, so every score is
\* in (0, 1], a label without a match is absent, and the empty query has the
\* empty map
C14_ScoresAreKeywordShares ==
    generator_calls # <<>> =>
        LET intents == chat_response.metadata.intents
            query_lower == Lower(request.message)
        IN  /\ \A i \in 1..Len(intent_keywords) :
                  C14_Matched(i, query_lower) > 0 <=>
                      Cardinality({j \in 1..Len(intents) :
                                     intents[j].label = intent_keywords[i][1]}) = 1
            /\ \A j \in 1..Len(intents) :
                  /\ intents[j].score.n > 0
                  /\ intents[j].score.n <= intents[j].score.d
                  /\ \E i \in 1..Len(intent_keywords) :
                        /\ intents[j].label = intent_keywords[i][1]
                        /\ SameFraction(intents[j].score,
                                        Fraction(C14_Matched(i, query_lower),
                                                 Len(intent_keywords[i][2])))
            /\ request.message = <<>> => intents = <<>>

\* "What is new?" was classified as create with 1 of 5 keywords and help with
\* 1 of 6, and as nothing else
C14_TwoLabelsWithDifferentScores ==
    /\ generator_calls # <<>>
    /\ request.message = Query["What is new?"]
    /\ chat_response.metadata.intents =
          <<[label |-> "create", score |-> Fraction(1, 5)],
            [label |-> "help", score |-> Fraction(1, 6)]>>

\* C15: the confidence of an envelope is the largest score of the intent score
\* map, or 0.5 when the map is empty, as it is for a query without any intent
\* keyword; on every path, the direct answers too, it lies in [0, 1]
C15_ConfidenceIsBestScore ==
    request.op \in {"chat", "process_query"} /\ chat_response.status = 200 =>
        LET confidence == chat_response.confidence
            intents == chat_response.metadata.intents
        IN  /\ confidence.d > 0
            /\ 0 <= confidence.n
            /\ confidence.n <= confidence.d
            /\ generator_calls # <<>> =>
                  /\ intents = <<>> => SameFraction(confidence, Fraction(1, 2))
                  /\ intents # <<>> =>
                        /\ \E j \in 1..Len(intents) :
                              SameFraction(confidence, intents[j].score)
                        /\ \A j \in 1..Len(intents) :
                              LessEq(intents[j].score, confidence)
                  /\ (\A i \in 1..Len(intent_keywords) :
                         C14_Matched(i, Lower(request.message)) = 0) =>
                        SameFraction(confidence, Fraction(1, 2))

\* "Show epics", with the scores 2/5 for epic, 1/5 for list and 1/6 for help
\* ("how" in "show"), was answered by the generator path with confidence 2/5
C15_BestOfThreeScores ==
    /\ request.op = "chat"
    /\ request.message = Query["Show epics"]
    /\ generator_calls # <<>>
    /\ [j \in 1..Len(chat_response.metadata.intents) |->
          chat_response.metadata.intents[j].score] =
          <<Fraction(2, 5), Fraction(1, 5), Fraction(1, 6)>>
    /\ SameFraction(chat_response.confidence, Fraction(2, 5))

\* the tag list external_data, when present, followed by intent_<label> for
\* every label of the envelope's intent score map, in the order of the map
C16_Tags(present) ==
    (IF present THEN << <<"external_data">> >> ELSE <<>>)
    \o [j \in 1..Len(chat_response.metadata.intents) |->
          <<"intent_", chat_response.metadata.intents[j].label>>]

C17_Line(turn) == <<turn.role, ":", " ">> \o turn.content

\* the last two turns of the log are a user turn and then an assistant turn
C17_EndsWithExchange ==
    /\ Len(conversation_history) >= 2
    /\ conversation_history[Len(conversation_history) - 1].role = "user"
    /\ conversation_history[Len(conversation_history)].role = "assistant"

\* the lines of the last user turn and the last assistant turn, joined
C17_ExchangeLines ==
    C17_Line(conversation_history[Len(conversation_history) - 1]) \o <<"\n">>
    \o C17_Line(conversation_history[Len(conversation_history)])

\* C17 as stated: from any store state, after a user turn and then an
\* assistant turn were appended, the recent context asked for with a window
\* of 2 is exactly "user: <text>\nassistant: <text>" of those two turns
C17_ContextIsLastExchange ==
    C17_EndsWithExchange =>
        get_conversation_context(conversation_history) = C17_ExchangeLines

\* C17: the recent context is the lines "role: text" of the last 5 turns of
\* the log (of all of them while there are fewer), in log order, joined by a
\* newline, and the empty string for the empty log; the window is fixed, so
\* after a user turn and then an assistant turn were appended the context ends
\* with "user: <text>\nassistant: <text>" of those two turns and is exactly
\* that only when the log holds no other turn
C17_ContextIsLastFiveTurns ==
    LET context == get_conversation_context(conversation_history)
        n == Len(conversation_history)
        first == IF n > 5 THEN n - 4 ELSE 1
        lines == [i \in 1..(n - first + 1) |-> C17_Line(conversation_history[first + i - 1])]
    IN  /\ ContextWindow = 5
        /\ n = 0 => context = <<>>
        /\ context = Join(<<"\n">>, lines)
        /\ Cardinality({i \in 1..Len(context) : context[i] = "\n"}) =
              (IF n = 0 THEN 0 ELSE Len(lines) - 1)
        /\ C17_EndsWithExchange =>
              /\ SubSeq(context, Len(context) - Len(C17_ExchangeLines) + 1, Len(context))
                    = C17_ExchangeLines
              /\ context = C17_ExchangeLines <=> n = 2

\* a log of seven turns ends with a user turn and an assistant turn, and its
\* context holds five lines
C17_FiveLinesOfSevenTurns ==
    /\ Len(conversation_history) = 7
    /\ C17_EndsWithExchange
    /\ Cardinality({i \in 1..Len(get_conversation_context(conversation_history)) :
                      get_conversation_context(conversation_history)[i] = "\n"}) = 4

\* what _make_request made of the reply to the client call of this request
C18_Response == _make_request(transport_calls[1].op, transport_calls[1].reply)

\* the reply is a failure of the transport: the request raised, the status is
\* outside the given ones, or the body of an accepted reply is not JSON
C18_TransportFailed(accepted) ==
    \/ transport_calls[1].reply.raises
    \/ transport_calls[1].reply.status \notin accepted
    \/ transport_calls[1].reply.body = "garbled"

\* what C18 states for a set of accepted statuses: the wrapper resolves every
\* call, to a success for an accepted reply and to a failure with a non-empty
\* error text for a transport failure, and the handler returns a result of
\* source mcp_error for every such failure
C18_Resolved(accepted) ==
    /\ request.op \in {"handle_epic_query", "handle_sprint_query", "handle_board_query"}
    /\ transport_calls # <<>>
    => /\ C18_Response.success \in BOOLEAN
       /\ ~C18_TransportFailed(accepted) => C18_Response.success
       /\ C18_TransportFailed(accepted) =>
             /\ ~C18_Response.success
             /\ C18_Response.error.some
             /\ C18_Response.error.val # <<>>
             /\ ~dispatch_result.raised
             /\ dispatch_result.ret.source = "mcp_error"

\* C18 as stated: every 2xx reply is a success, and every other status,
\* network exception, timeout or unparsable body a failure with a non-empty
\* error text that the handler returns as a failure result
C18_Every2xxIsSuccess == C18_Resolved(200..299)

\* C18: _make_request never raises and resolves every call: a reply with
\* status 200, 201, 202 or 204 and a parsable body is a success, and every
\* other status (the other 2xx too), network exception, timeout or unparsable
\* body is a failure with a non-empty error text, which the handler returns as
\* a failure result of source mcp_error
C18_AcceptedStatusIsSuccess == C18_Resolved({200, 201, 202, 204})

\* a fetch that got an unparsable body was returned as a failure carrying the
\* parse error
C18_UnparsableBodyReturnedAsFailure ==
    /\ request.op = "handle_epic_query"
    /\ Len(transport_calls) = 1
    /\ transport_calls[1].op = "get_epic"
    /\ transport_calls[1].reply.status = 200
    /\ transport_calls[1].reply.body = "garbled"
    /\ dispatch_result.ret.source = "mcp_error"
    /\ dispatch_result.ret.error.val[1] = "Request failed: "

\* the store a session would have if it owned one: its own turns, bounded
C19_OwnStore(user_id) == LastN(session_log[user_id], max_history)

\* what the given sessions observe is what their own turns alone would give
C19_Isolated(sessions) ==
    /\ \A user_id \in sessions :
          /\ get_conversation_context(conversation_history) =
                get_conversation_context(C19_OwnStore(user_id))
          /\ get_conversation_summary(conversation_history).message_count =
                Len(C19_OwnStore(user_id))
    /\ request.op = "chat" /\ generator_calls # <<>> /\ request.user_id \in sessions =>
          LET own == session_log[request.user_id]
              external_context == generator_calls[1].external_context
          IN  generator_calls[1].context =
                 get_conversation_context(LastN(SubSeq(own, 1, Len(own) - 1), max_history))
                 \o (IF Truthy(external_context)
                     THEN <<"\n\nAdditional Context: ">> \o external_context.val
                     ELSE <<>>)

\* C19: sessions with different user_id do not share conversation state: the
\* context and the summary a session is given, and the context its answer is
\* generated from, are those of its own turns, and a reset by one session
\* does not clear the log of another
C19_SessionsAreIsolated == C19_Isolated(UserIds)

\* the calls in flight applied one after the other, in the given order, to
\* the log they found
RECURSIVE C20_OneAtATime(_, _)
C20_OneAtATime(history, order) ==
    IF order = <<>> THEN history
    ELSE LET turn == writers[Head(order)].message
         IN  C20_OneAtATime(add_message(history, turn.role, turn.content, turn.metadata),
                            Tail(order))

\* the orders in which the calls in flight can be taken one after the other
C20_Orders ==
    { order \in [1..Len(writers) -> 1..Len(writers)] :
        \A i, j \in 1..Len(writers) : i # j => order[i] # order[j] }

\* no call is between its append and the end of its truncation
C20_AtRest == \A w \in 1..Len(writers) : writers[w].pc \in {"append", "done"}

\* C20: however the steps of concurrent add_message calls (append, length
\* check, truncating reassignment) interleave, once the calls have finished
\* the log is the one some one-at-a-time order of them gives; whenever no
\* call is past its append and short of its end the log holds the newest
\* appended turns, no more than max_history of them, so that a turn is lost
\* by eviction of the oldest only
C20_AppendsAreSerialized ==
    /\ C20_AtRest =>
          /\ Len(conversation_history) <= max_history
          /\ conversation_history = LastN(appended, max_history)
    /\ (\A w \in 1..Len(writers) : writers[w].pc = "done") =>
          \E order \in C20_Orders :
             conversation_history = C20_OneAtATime(request.history, order)

\* C20 witness: three calls have finished on a log that was full, two of
\* them appended before either truncated (one found 12 turns, another more
\* than 10), and the log holds exactly max_history turns
C20_TwoAppendsBeforeTruncation ==
    /\ Len(writers) = MaxWriters
    /\ \A w \in 1..Len(writers) : writers[w].pc = "done"
    /\ \E v, w \in 1..Len(writers) :
          /\ v # w
          /\ writers[v].length = max_history + 2
          /\ writers[w].length > max_history
    /\ Len(request.history) = max_history
    /\ Len(conversation_history) = max_history

\* the message has the form "Create epic in <KEY> with title <words>"
C21_HasForm(message) ==
    LET words == Split(message)
    IN  /\ Len(words) >= 7
        /\ SubSeq(words, 1, 3) = <<Word["Create"], Word["epic"], Word["in"]>>
        /\ SubSeq(words, 5, 6) = <<Word["with"], Word["title"]>>

\* C21: for a chat message "Create epic in <KEY> with title <words>" the
\* create call is made once, with <KEY> in upper case as project key and all
\* the words after "title" as summary, and when the transport succeeds the
\* envelope has the source tags ["mcp_epic_creation"] and confidence 1.0
C21_CreateEpicByKeyAndTitle ==
    request.op = "chat" /\ C21_HasForm(request.message) =>
       LET words == Split(request.message)
       IN  /\ Len(transport_calls) = 1
           /\ transport_calls[1].op = "create_epic"
           /\ transport_calls[1].args =
                 <<Upper(words[4]), JoinSp(SubSeq(words, 7, Len(words))), <<>> >>
           /\ _make_request("create_epic", transport_calls[1].reply).success =>
                 /\ chat_response.status = 200
                 /\ chat_response.sources = << <<"mcp_epic_creation">> >>
                 /\ SameFraction(chat_response.confidence, Fraction(1, 1))

\* the client calls each dispatcher can make
C22_CallsOf ==
    [epic |-> {"get_epics", "get_epic", "create_epic"},
     sprint |-> {"get_sprints", "get_sprint", "create_sprint"},
     board |-> {"get_boards", "get_board"},
     general |-> {}]

\* the entity names that occur in the lower-cased message
C22_Named(message) ==
    { kind \in {"epic", "sprint", "board"} : Contains(Lower(message), Keyword[kind]) }

\* the calls made were those of the dispatcher of the given kind, and without
\* a dispatcher the search was called once on the message and what it found
\* was folded into the context of the generator
C22_Served(kind) ==
    /\ request.entity = kind
    /\ \A i \in 1..Len(transport_calls) : transport_calls[i].op \in C22_CallsOf[kind]
    /\ kind = "general" =>
          /\ Len(search_calls) = 1
          /\ search_calls[1].query = request.message
          /\ Len(generator_calls) = 1
          /\ generator_calls[1].external_context =
                IF search_calls[1].found > 0
                THEN Some(<<"Documentation: ">>
                          \o search(request.message, search_calls[1].found).message)
                ELSE None

\* C22 as stated: the dispatcher called is that of the entity label with the
\* best score in the intent score map, one dispatcher at most; a message
\* without any entity goes to the search, once, and a non-empty result is
\* folded into the context
C22_DispatchedByTopEntityScore ==
    request.op = "chat" =>
       LET intents == classify_intent(request.message)
           matched == { i \in 1..Len(intents) : intents[i].label \in {"epic", "sprint"} }
       IN  /\ matched # {} =>
                \E i \in matched :
                   /\ \A j \in matched : LessEq(intents[j].score, intents[i].score)
                   /\ C22_Served(intents[i].label)
           /\ matched = {} /\ C22_Named(request.message) = {} => C22_Served("general")

\* C22: the dispatcher called is that of the first of epic, sprint and board
\* whose name occurs in the lower-cased message, whatever the intent scores,
\* one dispatcher at most; a message that names none of them goes to the
\* search, once, and a non-empty result is folded into the context
C22_DispatchedByFirstNamedEntity ==
    request.op = "chat" =>
       LET named == C22_Named(request.message)
       IN  C22_Served(IF "epic" \in named THEN "epic"
                      ELSE IF "sprint" \in named THEN "sprint"
                      ELSE IF "board" \in named THEN "board"
                      ELSE "general")

\* C22 witness: "list sprints for epic", where sprint scores 2/5 and epic
\* 1/5, was handed to the epic dispatcher, which fetched the epics
C22_EpicServedThoughSprintScoredHigher ==
    /\ request.op = "chat"
    /\ request.message = Query["list sprints for epic"]
    /\ \E i, j \in 1..Len(chat_response.metadata.intents) :
          LET intents == chat_response.metadata.intents
          IN  /\ intents[i].label = "epic" /\ intents[j].label = "sprint"
              /\ LessEq(intents[i].score, intents[j].score)
              /\ ~LessEq(intents[j].score, intents[i].score)
    /\ Len(transport_calls) = 1
    /\ transport_calls[1].op = "get_epics"

\* the words after the lower-case action phrase in the query as typed, none
\* when the query as typed does not hold the phrase
C23_WordsAfter(query, phrase) ==
    LET pieces == SplitOn(query, phrase)
    IN  IF Len(pieces) >= 2 THEN Split(Strip(pieces[2])) ELSE <<>>

\* what the create-epic handler does with the given fields
C23_EpicOutcome(project_key, summary) ==
    IF ~Truthy(project_key)
    THEN /\ transport_calls = <<>>
         /\ dispatch_result.ret.error = Some(<<"Project key required">>)
    ELSE IF ~Truthy(summary)
    THEN /\ transport_calls = <<>>
         /\ dispatch_result.ret.error = Some(<<"Epic summary required">>)
    ELSE /\ Len(transport_calls) = 1
         /\ transport_calls[1].args = <<project_key.val, summary.val, <<>> >>

\* what the create-sprint handler does with the given fields
C23_SprintOutcome(sprint_name, board_id) ==
    IF ~Truthy(sprint_name)
    THEN /\ transport_calls = <<>>
         /\ dispatch_result.ret.error = Some(<<"Sprint name required">>)
    ELSE IF ~TruthyInt(board_id)
    THEN /\ transport_calls = <<>>
         /\ dispatch_result.ret.error = Some(<<"Board ID required">>)
    ELSE /\ Len(transport_calls) = 1
         /\ transport_calls[1].args = <<sprint_name.val, board_id.val>>

\* a create handler ran on the request and returned
C23_Created(op) ==
    /\ request.op = op
    /\ Verb(request.message) = "create"
    /\ ~dispatch_result.raised

C24_OneCallAtMost ==
    request.op = "chat" =>
       /\ Len(transport_calls) <= 1
       /\ Len(dispatch_result.calls) = Len(transport_calls)
       /\ \A i \in 1..Len(transport_calls) :
             transport_calls[i].op \in C22_CallsOf[request.entity]

\* C24 witness: the one call of a chat request failed, the dispatcher
\* returned the failure and the request went on to the generator
C24_FailedCallNotRepeated ==
    /\ request.op = "chat"
    /\ Len(transport_calls) = 1
    /\ ~_make_request(transport_calls[1].op, transport_calls[1].reply).success
    /\ ~dispatch_result.raised
    /\ dispatch_result.ret.source = "mcp_error"
    /\ Len(generator_calls) = 1

\* C25: every result a dispatcher returns has the one shape: its source is
\* "mcp" or "mcp_error" and it has a message; with source "mcp" it has a type
\* and data, with source "mcp_error" it has an error that is a non-empty text
C25_ResultsAreNormalized ==
    request.op \in {"handle_epic_query", "handle_sprint_query", "handle_board_query"}
    /\ ~dispatch_result.raised =>
       LET ret == dispatch_result.ret
       IN  /\ "source" \in DOMAIN ret
           /\ ret.source \in {"mcp", "mcp_error"}
           /\ "message" \in DOMAIN ret
           /\ ret.source = "mcp" => {"type", "data"} \subseteq DOMAIN ret
           /\ ret.source = "mcp_error" =>
                 /\ "error" \in DOMAIN ret
                 /\ ret.error.some
                 /\ ret.error.val # <<>>

\* the log as it was when the context of the last query was taken: all the
\* turns appended since the last reset but the answer, the newest max_history
C26_LogAtContext == LastN(SubSeq(appended, 1, Len(appended) - 1), max_history)

\* the lines of the newest ContextWindow turns of the log
C26_Window(history) ==
    LET recent == LastN(history, ContextWindow)
    IN  Join(<<"\n">>, [i \in 1..Len(recent) |-> C17_Line(recent[i])])

\* s ends with t
C26_EndsWith(s, t) ==
    Len(s) >= Len(t) /\ SubSeq(s, Len(s) - Len(t) + 1, Len(s)) = t

\* C26: the context process_query hands to the generator is the window of
\* the log taken after the user turn of the query was appended, so that its
\* last line is "user: <query>", followed by the external context when one
\* is supplied (an empty one adds nothing) and by nothing otherwise
C26_ContextIsWindowThenExternal ==
    request.op = "process_query" =>
       LET call == generator_calls[1]
           window == C26_Window(C26_LogAtContext)
       IN  /\ Len(generator_calls) = 1
           /\ C26_EndsWith(window, <<"user", ":", " ">> \o request.message)
           /\ call.context =
                 window \o (IF request.external_context.some
                               /\ request.external_context.val # <<>>
                            THEN <<"\n\nAdditional Context: ">>
                                    \o request.external_context.val
                            ELSE <<>>)

\* C26 witness: a query that came with an external context after five
\* earlier queries: the context is the five newest lines, the last of them
\* the query's own, and the external context after them
C26_FullWindowThenExternal ==
    /\ request.op = "process_query"
    /\ steps = MaxQueries
    /\ Len(appended) = 2 * MaxQueries
    /\ Truthy(request.external_context)
    /\ Len(C26_LogAtContext) = max_history
    /\ C26_EndsWith(generator_calls[1].context,
          <<"user", ":", " ">> \o request.message
             \o <<"\n\nAdditional Context: ">> \o request.external_context.val)

\* C27: after any sequence of completed process_query and reset_conversation
\* calls the log has even length and alternates user and assistant turns
\* from a user turn on, each assistant turn being the answer to the query of
\* the user turn before it, and the summary counts as many user as assistant
\* messages, message_count being their sum
C27_LogAlternates ==
    LET history == conversation_history
        summary == get_conversation_summary(history)
    IN  /\ Len(history) % 2 = 0
        /\ \A i \in 1..Len(history) :
              history[i].role = IF i % 2 = 1 THEN "user" ELSE "assistant"
        /\ \A i \in 1..Len(history) :
              i % 2 = 0 =>
                 /\ history[i].metadata.some
                 /\ history[i].metadata.val.intents = classify_intent(history[i - 1].content)
                 /\ history[i].content =
                       _generate_fallback_response(history[i - 1].content)
        /\ summary.message_count = summary.user_messages + summary.assistant_messages
        /\ summary.user_messages = summary.assistant_messages

\* C27 witness: the sixth query on a log of ten turns: its user turn evicted
\* the oldest user turn, its answer the oldest answer, and the log holds the
\* five newest exchanges
C27_OverflowKeepsExchanges ==
    /\ request.op = "process_query"
    /\ Len(appended) = 2 * MaxQueries
    /\ Len(conversation_history) = max_history
    /\ conversation_history[1].role = "user"
    /\ conversation_history[1] = appended[3]
    /\ conversation_history[max_history] = appended[Len(appended)]

\* C28: for every call of process_query the flag has_external_context of the
\* returned metadata is true exactly when the source tags hold
\* "external_data" and the external context was appended to the context of
\* the generator
C28_FlagMatchesUse ==
    request.op = "process_query" =>
       LET flag == chat_response.metadata.has_external_context
           tagged == \E i \in 1..Len(chat_response.sources) :
                        chat_response.sources[i] = <<"external_data">>
           added == Contains(generator_calls[1].context, <<"\n\nAdditional Context: ">>)
       IN  flag <=> (tagged /\ added)

\* C29: after every completed generate_response call, whatever requests
\* succeeded and failed before, the history of the Ollama client holds at
\* most max_history messages and every user message in it is followed by
\* its assistant reply
C29_OllamaHistoryBoundedAndPaired ==
    request.op = "generate_response" =>
       /\ Len(ollama_history) <= ollama_max_history
       /\ \A i \in 1..Len(ollama_history) :
             ollama_history[i].role = "user" =>
                /\ i < Len(ollama_history)
                /\ ollama_history[i + 1].role = "assistant"

\* C30: the example quoted in the guidance messages of a create handler is
\* accepted by that handler: it passes the validation of both fields and the
\* create call is made
C30_GuidanceExamplesAreAccepted ==
    /\ request.op = "handle_epic_query"
       /\ request.message = Query["Create epic in PROJECT-123 with title My Epic"] =>
          /\ ~dispatch_result.raised
          /\ Len(transport_calls) = 1
          /\ transport_calls[1].op = "create_epic"
    /\ request.op = "handle_sprint_query"
       /\ request.message = Query["Create sprint in board 123 named Sprint 1"] =>
          /\ ~dispatch_result.raised
          /\ Len(transport_calls) = 1
          /\ transport_calls[1].op = "create_sprint"
====
